---------------------------- MODULE Spec2Model ----------------------------
(***************************************************************************)
(* A model of pyment's docstring engine: DocsTools (docs_tools.py), the    *)
(* DocString facade (docstring.py), the format strategies and the comment  *)
(* builder (comment_builder/).  Python strings are TLA+ strings; indexes   *)
(* are Python's (0-based, -1 for "not found"); Python's None is the        *)
(* reserved string None, which occurs in no input text.                    *)
(*                                                                         *)
(* The source is read as it is wired to run: the decorators log_function   *)
(* and log_generator leave the decorated function as it is, the comment    *)
(* builder is given the CommentBuilderConfig of the DocString (its dst is   *)
(* the docs_tools of the builder, its spaces is the empty string), and the *)
(* strategies indent with the CaseConfig of the element.  The output       *)
(* dialects are the four that have a format strategy of their own          *)
(* (javadoc, reST, google, numpydoc).  A Python exception is the exc field *)
(* of what an operator returns.                                            *)
(***************************************************************************)
EXTENDS Integers, Sequences, FiniteSets, TLC

(***************************************************************************)
(* Python's str and re primitives, as the source uses them.                *)
(***************************************************************************)
None == "<None>"

NL == "\n"

LowerAlpha == "abcdefghijklmnopqrstuvwxyz"

UpperAlpha == "ABCDEFGHIJKLMNOPQRSTUVWXYZ"

DigitsAndUnderscore == "0123456789_"

CharsOf(s) == {SubSeq(s, i, i) : i \in 1..Len(s)}

UpperSet == CharsOf(UpperAlpha)

WordChars == CharsOf(LowerAlpha) \cup UpperSet \cup CharsOf(DigitsAndUnderscore)

WhiteSpace == {" ", "\t", "\n", "\r"}

ToLowerChar == [c \in UpperSet |->
                  LET i == CHOOSE j \in 1..Len(UpperAlpha) : SubSeq(UpperAlpha, j, j) = c
                  IN  SubSeq(LowerAlpha, i, i)]

ToUpperChar == [c \in CharsOf(LowerAlpha) |->
                  LET i == CHOOSE j \in 1..Len(LowerAlpha) : SubSeq(LowerAlpha, j, j) = c
                  IN  SubSeq(UpperAlpha, i, i)]

Max(a, b) == IF a >= b THEN a ELSE b

Min(a, b) == IF a <= b THEN a ELSE b

\* s[i] for 0 <= i < len(s)
At(s, i) == SubSeq(s, i + 1, i + 1)

\* Python's slice index normalisation
NormIdx(i, n) == IF i < 0 THEN Max(0, i + n) ELSE Min(i, n)

\* s[a:b]
Slice(s, a, b) == SubSeq(s, NormIdx(a, Len(s)) + 1, NormIdx(b, Len(s)))

\* s[a:]
SliceFrom(s, a) == SubSeq(s, NormIdx(a, Len(s)) + 1, Len(s))

\* s[:b]
SliceTo(s, b) == SubSeq(s, 1, NormIdx(b, Len(s)))

StartsWith(s, p) == Len(p) <= Len(s) /\ SubSeq(s, 1, Len(p)) = p

EndsWith(s, p) == Len(p) <= Len(s) /\ SubSeq(s, Len(s) - Len(p) + 1, Len(s)) = p

RECURSIVE FindIn(_, _, _, _)
\* the first index in lo..hi at which p occurs in s, else -1
FindIn(s, p, lo, hi) ==
  IF lo > hi THEN -1
  ELSE IF lo = hi THEN (IF SubSeq(s, lo + 1, lo + Len(p)) = p THEN lo ELSE -1)
  ELSE LET mid == (lo + hi) \div 2
           l   == FindIn(s, p, lo, mid)
       IN  IF l # -1 THEN l ELSE FindIn(s, p, mid + 1, hi)

\* s.find(p, i)
FindFrom(s, p, i) == FindIn(s, p, i, Len(s) - Len(p))

Find(s, p) == FindFrom(s, p, 0)

RECURSIVE RFindIn(_, _, _, _)
\* the last index in lo..hi at which p occurs in s, else -1
RFindIn(s, p, lo, hi) ==
  IF lo > hi THEN -1
  ELSE IF lo = hi THEN (IF SubSeq(s, lo + 1, lo + Len(p)) = p THEN lo ELSE -1)
  ELSE LET mid == (lo + hi) \div 2
           r   == RFindIn(s, p, mid + 1, hi)
       IN  IF r # -1 THEN r ELSE RFindIn(s, p, lo, mid)

\* s.rfind(p)
RFind(s, p) == RFindIn(s, p, 0, Len(s) - Len(p))

\* p in s
Contains(s, p) == Find(s, p) # -1

RECURSIVE CountFrom(_, _, _)
CountFrom(s, p, i) ==
  LET j == FindFrom(s, p, i)
  IN  IF j = -1 THEN 0 ELSE 1 + CountFrom(s, p, j + Len(p))

\* s.count(p), p not empty
Count(s, p) == CountFrom(s, p, 0)

\* s with new in the place of the old found at index j, rest being what
\* follows it in the result
ReplaceAt(s, old, new, j, rest) ==
  IF old = "" \/ j = -1 THEN s ELSE SliceTo(s, j) \o new \o rest

\* s[j + len(old):]
AfterOld(s, old, j) == SliceFrom(s, j + Len(old))

\* s.replace(old, new, 1), old not empty unless new is empty too
ReplaceFirstAt(s, old, new, j) == ReplaceAt(s, old, new, j, AfterOld(s, old, j))

ReplaceFirst(s, old, new) == ReplaceFirstAt(s, old, new, Find(s, old))

RECURSIVE ReplaceAll(_, _, _)
ReplaceAllAt(s, old, new, j) ==
  ReplaceAt(s, old, new, j, ReplaceAll(AfterOld(s, old, j), old, new))

\* s.replace(old, new), old not empty
ReplaceAll(s, old, new) == ReplaceAllAt(s, old, new, Find(s, old))

RECURSIVE FirstOutside(_, _, _, _)
\* the first index in lo..hi of a character of s outside cs, else -1
FirstOutside(s, cs, lo, hi) ==
  IF lo > hi THEN -1
  ELSE IF lo = hi THEN (IF At(s, lo) \notin cs THEN lo ELSE -1)
  ELSE LET mid == (lo + hi) \div 2
           l   == FirstOutside(s, cs, lo, mid)
       IN  IF l # -1 THEN l ELSE FirstOutside(s, cs, mid + 1, hi)

RECURSIVE FirstInside(_, _, _, _)
\* the first index in lo..hi of a character of s in cs, else -1
FirstInside(s, cs, lo, hi) ==
  IF lo > hi THEN -1
  ELSE IF lo = hi THEN (IF At(s, lo) \in cs THEN lo ELSE -1)
  ELSE LET mid == (lo + hi) \div 2
           l   == FirstInside(s, cs, lo, mid)
       IN  IF l # -1 THEN l ELSE FirstInside(s, cs, mid + 1, hi)

RECURSIVE LastOutside(_, _, _, _)
\* the last index in lo..hi of a character of s outside cs, else -1
LastOutside(s, cs, lo, hi) ==
  IF lo > hi THEN -1
  ELSE IF lo = hi THEN (IF At(s, lo) \notin cs THEN lo ELSE -1)
  ELSE LET mid == (lo + hi) \div 2
           r   == LastOutside(s, cs, mid + 1, hi)
       IN  IF r # -1 THEN r ELSE LastOutside(s, cs, lo, mid)

\* the length of the run of s from index i that ends before index j (-1: at
\* the end of s)
SpanTo(s, i, j) == IF i >= Len(s) THEN 0 ELSE IF j = -1 THEN Len(s) - i ELSE j - i

\* the length of the longest run of characters of the set cs in s, from index i
SpanLen(s, cs, i) == SpanTo(s, i, FirstOutside(s, cs, i, Len(s) - 1))

\* the length of the longest run of characters outside cs in s, from index i
NotSpanLen(s, cs, i) == SpanTo(s, i, FirstInside(s, cs, i, Len(s) - 1))

\* s.lstrip(chars)
LStripSet(s, chars) == SliceFrom(s, SpanLen(s, chars, 0))

\* s.rstrip(chars)
RStripSet(s, chars) == SubSeq(s, 1, LastOutside(s, chars, 0, Len(s) - 1) + 1)

LStrip(s) == LStripSet(s, WhiteSpace)

RStrip(s) == RStripSet(s, WhiteSpace)

Strip(s) == LStrip(RStrip(s))

RECURSIVE Lower(_)
\* s.lower()
Lower(s) ==
  IF s = "" THEN ""
  ELSE IF Len(s) = 1 THEN (IF s \in UpperSet THEN ToLowerChar[s] ELSE s)
  ELSE LET mid == Len(s) \div 2
       IN  Lower(SubSeq(s, 1, mid)) \o Lower(SubSeq(s, mid + 1, Len(s)))

RECURSIVE Upper(_)
\* s.upper()
Upper(s) ==
  IF s = "" THEN ""
  ELSE IF Len(s) = 1 THEN (IF s \in DOMAIN ToUpperChar THEN ToUpperChar[s] ELSE s)
  ELSE LET mid == Len(s) \div 2
       IN  Upper(SubSeq(s, 1, mid)) \o Upper(SubSeq(s, mid + 1, Len(s)))

RECURSIVE SplitAll(_, _)
\* s.split(sep) when the first sep of s is at index j
SplitAllAt(s, sep, j) ==
  IF j = -1 THEN << s >>
  ELSE << SliceTo(s, j) >> \o SplitAll(SliceFrom(s, j + Len(sep)), sep)

\* s.split(sep)
SplitAll(s, sep) == SplitAllAt(s, sep, Find(s, sep))

RECURSIVE SplitLines(_)
\* s.splitlines() when the first line break of s is at index j
SplitLinesAt(s, j) ==
  IF j = -1 THEN << s >> ELSE << SliceTo(s, j) >> \o SplitLines(SliceFrom(s, j + 1))

\* s.splitlines(): the line break is "\n"; no empty last line
SplitLines(s) == IF s = "" THEN << >> ELSE SplitLinesAt(s, Find(s, NL))

RECURSIVE Join(_, _)
\* sep.join(seq)
Join(seq, sep) ==
  IF Len(seq) = 0 THEN ""
  ELSE IF Len(seq) = 1 THEN seq[1]
  ELSE seq[1] \o sep \o Join(Tail(seq), sep)

\* s.split(sep, 1) when the first sep of s is at index j
SplitOnceAt(s, sep, j) ==
  IF j = -1 THEN << s >> ELSE << SliceTo(s, j), SliceFrom(s, j + Len(sep)) >>

\* s.split(sep, 1)
SplitOnce(s, sep) == SplitOnceAt(s, sep, Find(s, sep))

RECURSIVE SplitWS(_)
\* re.split(r'\s+', s) when s starts with n characters that are not white space
SplitWSAt(s, n) ==
  IF n = Len(s) THEN << s >>
  ELSE << SliceTo(s, n) >> \o SplitWS(SliceFrom(s, n + SpanLen(s, WhiteSpace, n)))

\* re.split(r'\s+', s)
SplitWS(s) == SplitWSAt(s, NotSpanLen(s, WhiteSpace, 0))

RECURSIVE SplitWords(_)
\* the words of t, which starts with a word of n characters
SplitWordsAt(t, n) == << SliceTo(t, n) >> \o SplitWords(SliceFrom(t, n))

\* the words of t, which does not start with white space
SplitWordsOf(t) ==
  IF t = "" THEN << >> ELSE SplitWordsAt(t, NotSpanLen(t, WhiteSpace, 0))

\* s.split(): the whitespace-separated words of s
SplitWords(s) == SplitWordsOf(LStrip(s))

\* the n word characters of s from index k, None when there are none
WordAt(s, k, n) == IF n = 0 THEN None ELSE Slice(s, k, k + n)

\* the first word of s, which starts at index k
FirstWordFrom(s, k) == WordAt(s, k, SpanLen(s, WordChars, k))

\* re.match(r'\W*(\w+)', s): group 1, or None
FirstWord(s) == FirstWordFrom(s, NotSpanLen(s, WordChars, 0))

\* re.match(r'^(\s*)', data).group(1)
get_leading_spaces(data) == SliceTo(data, SpanLen(data, WhiteSpace, 0))

RECURSIVE Times(_, _)
\* c * n
Times(c, n) == IF n <= 0 THEN "" ELSE c \o Times(c, n - 1)

(***************************************************************************)
(* utils.py                                                                *)
(***************************************************************************)
\* isin_alone(elems, line), elems a sequence
isin_alone(elems, line) ==
  \E i \in 1..Len(elems) : Lower(Strip(line)) = Lower(elems[i])

\* isin_start(elems, line), elems a sequence
isin_start(elems, line) ==
  \E i \in 1..Len(elems) : StartsWith(Lower(LStrip(line)), elems[i])

\* isin(elems, line), elems a sequence
isin(elems, line) ==
  \E i \in 1..Len(elems) : Contains(Lower(line), elems[i])

\* IsDashLine(line) when line.strip() is striped
IsDashes(line, striped) ==
  striped # "" /\ isin_alone(<< Times("-", Len(striped)) >>, line)

\* a line made of dashes only: line.strip() and isin_alone(['-' * len(line.strip())], line)
IsDashLine(line) == IsDashes(line, Strip(line))

\* normalize_default_value(default_value)
normalize_default_value(default_value) ==
  IF default_value = None \/ default_value = "" THEN default_value
  ELSE IF StartsWith(default_value, "\"\"\"") /\ EndsWith(default_value, "\"\"\"")
       THEN "'" \o Slice(default_value, 3, -3) \o "'"
  ELSE IF StartsWith(default_value, "'''") /\ EndsWith(default_value, "'''")
       THEN "'" \o Slice(default_value, 3, -3) \o "'"
  ELSE ReplaceAll(ReplaceAll(default_value, "\"\"\"", "'"), "'''", "'")

(***************************************************************************)
(* docs_tools.py: DocsTools, the tag styles                                *)
(***************************************************************************)
\* DocsTools.tagstyles
tagstyles == << "javadoc", "reST", "cstyle" >>

\* options_tagstyle['keys'], the keys of DocsTools.opt in insertion order
OptKeys == << "param", "type", "returns", "return", "rtype", "raise" >>

\* options_tagstyle['styles'][style][0]
StylePrefix(style) ==
  CASE style = "javadoc" -> "@"
    [] style = "reST"    -> ":"
    [] style = "cstyle"  -> "\\"

\* options_tagstyle['styles'][style][1]
StyleSep(style) ==
  CASE style = "javadoc" -> ":"
    [] style = "reST"    -> ":"
    [] style = "cstyle"  -> " "

\* DocsTools.opt[key][style]['name'] as _set_available_styles leaves it
OptName(key, style) ==
  IF style = "reST" /\ key = "return" THEN ":returns"
  ELSE IF style = "reST" /\ key = "raise" THEN ":raises"
  ELSE StylePrefix(style) \o key

\* DocsTools.groups
GroupWords(key) ==
  CASE key = "param"  -> << "params", "args", "parameters", "arguments" >>
    [] key = "return" -> << "returns", "return" >>
    [] key = "raise"  -> << "raises", "exceptions", "raise", "exception" >>

GroupKeys == << "param", "return", "raise" >>

\* NumpydocTools.opt, in insertion order
NumpyOptKeys ==
  << "also", "attr", "example", "method", "note", "other", "param", "raise", "ref", "return" >>

NumpyOpt(key) ==
  CASE key = "also"    -> "see also"
    [] key = "attr"    -> "attributes"
    [] key = "example" -> "examples"
    [] key = "method"  -> "methods"
    [] key = "note"    -> "notes"
    [] key = "other"   -> "other parameters"
    [] key = "param"   -> "parameters"
    [] key = "raise"   -> "raises"
    [] key = "ref"     -> "references"
    [] key = "return"  -> "returns"

NumpyOptValues == [i \in 1..Len(NumpyOptKeys) |-> NumpyOpt(NumpyOptKeys[i])]

\* NumpydocTools.keywords
NumpyKeywords == << ":math:", ".. math::", "see also", ".. image::" >>

\* GoogledocTools.opt, in insertion order
GoogleOptKeys == << "attr", "param", "raise", "return", "yield" >>

GoogleOpt(key) ==
  CASE key = "attr"   -> "attributes"
    [] key = "param"  -> "args"
    [] key = "raise"  -> "raises"
    [] key = "return" -> "returns"
    [] key = "yield"  -> "yields"

GoogleOptValues == [i \in 1..Len(GoogleOptKeys) |-> GoogleOpt(GoogleOptKeys[i])]

RECURSIVE SumSeq(_)
SumSeq(q) == IF Len(q) = 0 THEN 0 ELSE q[1] + SumSeq(Tail(q))

\* found_keys[style] of autodetect_style
FoundKeys(data, style) ==
  SumSeq([k \in 1..Len(OptKeys) |-> Count(data, OptName(OptKeys[k], style))])

B2N(b) == IF b THEN 1 ELSE 0

\* max(found_keys, key=found_keys.get): the first style with the highest count
MaxFoundKey(fj, fr, fc) ==
  IF fj >= fr /\ fj >= fc THEN "javadoc" ELSE IF fr >= fc THEN "reST" ELSE "cstyle"

FoundGroups(lines) ==
  SumSeq([i \in 1..Len(lines) |->
           SumSeq([k \in 1..Len(GroupKeys) |->
                    B2N(isin_start(GroupWords(GroupKeys[k]), lines[i]))])])

FoundGoogledoc(lines) ==
  SumSeq([i \in 1..Len(lines) |->
           SumSeq([k \in 1..Len(GoogleOptKeys) |->
                    B2N(isin_start(<< GoogleOpt(GoogleOptKeys[k]) >>, lines[i]))])])

FoundNumpydocsep(lines) == SumSeq([i \in 1..Len(lines) |-> B2N(IsDashLine(lines[i]))])

FoundNumpydoc(lines) ==
  SumSeq([i \in 1..Len(lines) |->
           SumSeq([k \in 1..Len(NumpyOptKeys) |->
                    B2N(isin_start(<< NumpyOpt(NumpyOptKeys[k]) >>, lines[i]))])
           + B2N(~IsDashLine(lines[i]) /\ isin(NumpyKeywords, lines[i]))])

\* the style if numpydoc were declared for two keyword lines or more only
GroupStyle_two_keywords(found_groups, found_googledoc, found_numpydoc, found_numpydocsep) ==
  IF found_numpydoc > 1 /\ found_numpydocsep > 0 THEN "numpydoc"
  ELSE IF found_googledoc >= found_groups THEN "google"
  ELSE IF found_groups > 0 THEN "groups"
  ELSE "unknown"

\* the style when no tag-style key is found
GroupStyle(found_groups, found_googledoc, found_numpydoc, found_numpydocsep) ==
  IF found_numpydoc > 0 /\ found_numpydocsep > 0 THEN "numpydoc"
  ELSE IF found_googledoc >= found_groups THEN "google"
  ELSE IF found_groups > 0 THEN "groups"
  ELSE "unknown"

DetectGroupStyle(lines) ==
  GroupStyle(FoundGroups(lines), FoundGoogledoc(lines), FoundNumpydoc(lines),
             FoundNumpydocsep(lines))

\* the style if the section keywords were looked at before the tag-style keys
DetectStyle_sections_first(data, fj, fr, fc) ==
  IF DetectGroupStyle(SplitLines(Strip(data))) = "numpydoc" THEN "numpydoc"
  ELSE IF Max(fj, Max(fr, fc)) > 0 THEN MaxFoundKey(fj, fr, fc)
  ELSE DetectGroupStyle(SplitLines(Strip(data)))

\* the style, fj, fr and fc being the found_keys of javadoc, reST and cstyle
DetectStyle(data, fj, fr, fc) ==
  IF Max(fj, Max(fr, fc)) > 0 THEN MaxFoundKey(fj, fr, fc)
  ELSE DetectGroupStyle(SplitLines(Strip(data)))

\* DocsTools.autodetect_style(data): the detected style (it is also stored in style['in'])
autodetect_style(data) ==
  DetectStyle(data, FoundKeys(data, "javadoc"), FoundKeys(data, "reST"),
              FoundKeys(data, "cstyle"))

RECURSIVE DoctestScan(_, _, _, _)
DoctestScan(datalst, i, start, end) ==
  IF i > Len(datalst) THEN << start, end >>
  ELSE IF start > -1
       THEN IF Strip(datalst[i]) = "" THEN << start, end >>
            ELSE DoctestScan(datalst, i + 1, start, i - 1)
  ELSE IF StartsWith(Strip(datalst[i]), ">>>")
       THEN DoctestScan(datalst, i + 1, i - 1, i - 1)
  ELSE DoctestScan(datalst, i + 1, start, end)

\* DocsTools.get_doctests_indexes(data): the line numbers (from 0) of the first doctest block
get_doctests_indexes(data) == DoctestScan(SplitLines(data), 1, -1, -1)

RECURSIVE KeyIndexLoop(_, _, _, _)
\* one turn of the while loop of get_key_index, key being found at index i
KeyIndexAt(data, key, ini, idx, i) ==
  IF i = -1 THEN << idx, data >>
  ELSE IF ~EndsWith(RStripSet(SliceTo(data, i), {" ", "\t"}), NL)
          /\ Len(Strip(SliceTo(data, i))) > 0
       THEN KeyIndexLoop(SliceFrom(data, i + 1), key, i + 1, idx)
  ELSE << ini + i, data >>

\* the while loop of get_key_index: << idx, data >> when the loop ends
KeyIndexLoop(data, key, ini, idx) == KeyIndexAt(data, key, ini, idx, Find(data, key))

\* if idx == len(data): -1, r being the << idx, data >> the loop ends with
KeyIndexResult(r) == IF r[1] = Len(r[2]) THEN -1 ELSE r[1]

KeyIndexIn(data, key) ==
  KeyIndexResult(IF Contains(data, key) THEN KeyIndexLoop(data, key, 0, Len(data))
                 ELSE << Len(data), data >>)

KeyIndexOf(data0, key) ==
  KeyIndexIn(IF StartsWith(key, ":returns")
             THEN ReplaceAll(data0, ":return:", ":returns:") ELSE data0, key)

\* DocsTools.get_key_index(data, key), starting = True as at every call
get_key_index(style, data0, k) == KeyIndexOf(data0, OptName(k, style))

\* if idx > i and i != -1: idx = i
ElemIndexMin(i, idx) == IF i < idx /\ i # -1 THEN i ELSE idx

RECURSIVE ElemIndexLoop(_, _, _, _)
ElemIndexLoop(style, data, k, idx) ==
  IF k > Len(OptKeys) THEN idx
  ELSE ElemIndexLoop(style, data, k + 1,
                     ElemIndexMin(get_key_index(style, data, OptKeys[k]), idx))

\* if idx == len(data): idx = -1
ElemIndexResult(data, idx) == IF idx = Len(data) THEN -1 ELSE idx

\* DocsTools.get_elem_index(data)
get_elem_index(style, data) ==
  ElemIndexResult(data, ElemIndexLoop(style, data, 1, Len(data)))

IsTagOrUnknown(style) ==
  style \in {"javadoc", "reST", "cstyle", "unknown"}

RaiseNameOf(s, n) == IF n = 0 THEN None ELSE SliceTo(s, n)

\* re.match(r'^([\w.]+)', s): group 1, or None   (RAISES_NAME_REGEX)
RaiseNameMatch(s) == RaiseNameOf(s, SpanLen(s, WordChars \cup {"."}, 0))

RaiseRange(start, param) == << start, start + Len(param) >>

RaiseIndexesOf(style, data, idx0, idx_p, param) ==
  IF IsTagOrUnknown(style) /\ idx0 >= 0 /\ param # None
  THEN RaiseRange(idx_p + Find(SliceFrom(data, idx_p), param), param)
  ELSE << -1, -1 >>

RaiseIndexesFrom(style, data, idx0, idx_p) ==
  RaiseIndexesOf(style, data, idx0, idx_p, RaiseNameMatch(Strip(SliceFrom(data, idx_p))))

RaiseIndexesAt(style, data, idx0) ==
  RaiseIndexesFrom(style, data, idx0, idx0 + Len(OptName("raise", style)))

\* DocsTools.get_raise_indexes(data), for a tag style
get_raise_indexes(style, data) ==
  RaiseIndexesAt(style, data, get_key_index(style, data, "raise"))

\* the end of a raise description that starts at start, e being the index of
\* the next element after start
RaiseDescEnd(style, start, e) ==
  IF IsTagOrUnknown(style) THEN (IF e >= 0 THEN e + start ELSE e) ELSE -1

RaiseDescRange(style, data, start) ==
  << start, RaiseDescEnd(style, start, get_elem_index(style, SliceFrom(data, start))) >>

RaiseDescOf(style, data, prev, first) ==
  IF prev < 0 \/ first = None THEN << -1, -1 >>
  ELSE RaiseDescRange(style, data, Find(SliceFrom(data, prev), first) + prev)

RaiseDescFrom(style, data, prev) ==
  RaiseDescOf(style, data, prev, FirstWord(SliceFrom(data, prev)))

\* DocsTools.get_raise_description_indexes(data, prev)
get_raise_description_indexes(style, data, prev0) ==
  RaiseDescFrom(style, data,
                IF prev0 = 0 THEN get_raise_indexes(style, data)[2] ELSE prev0)

\* if idx > 0: idx_abs += idx; end = idx_abs
IndexEnd(idx_abs, e) == IF e > 0 THEN idx_abs + e ELSE -1

ReturnDescRange(style, data, start, idx_abs) ==
  << start, IndexEnd(idx_abs, get_elem_index(style, SliceFrom(data, idx_abs))) >>

ReturnDescStart(style, data, start) == ReturnDescRange(style, data, start, start)

ReturnDescOf(style, data, idx, first) ==
  IF first # None
  THEN ReturnDescStart(style, data, idx + Find(SliceFrom(data, idx), first))
  ELSE ReturnDescRange(style, data, -1, idx)

ReturnDescAt(style, data, idx) ==
  ReturnDescOf(style, data, idx,
               IF idx >= 0
               THEN FirstWord(SliceFrom(data, idx + Len(OptName("return", style))))
               ELSE None)

\* DocsTools.get_return_description_indexes(data), for a tag style
get_return_description_indexes(style, data) ==
  IF IsTagOrUnknown(style)
  THEN ReturnDescAt(style, data, get_key_index(style, data, "return"))
  ELSE << -1, -1 >>

ReturnTypeRange(style, data, start) ==
  << start, IndexEnd(start, get_elem_index(style, SliceFrom(data, start))) >>

ReturnTypeOf(style, data, idx2, first) ==
  ReturnTypeRange(style, data,
                  IF first # None THEN Find(SliceFrom(data, idx2), first) + idx2 ELSE -1)

\* d is the range of the return description, idx the index of the next
\* element after it
ReturnTypeFrom(style, data, d, idx, stl_rtype) ==
  ReturnTypeOf(style, data, d[2] + idx + Len(stl_rtype),
               IF d[1] >= 0 /\ d[2] > 0 /\ idx >= 0
                  /\ StartsWith(SliceFrom(data, d[2] + idx), stl_rtype)
               THEN FirstWord(SliceFrom(data, d[2] + idx + Len(stl_rtype))) ELSE None)

ReturnTypeAfter(style, data, d) ==
  ReturnTypeFrom(style, data, d, get_elem_index(style, SliceFrom(data, d[2])),
                 OptName("rtype", style))

\* DocsTools.get_return_type_indexes(data), for a tag style
get_return_type_indexes(style, data) ==
  IF IsTagOrUnknown(style)
  THEN ReturnTypeAfter(style, data, get_return_description_indexes(style, data))
  ELSE << -1, -1 >>

\* the position of key name in the ordered dict ret, 0 when it is not a key
RetIndex(ret, name) ==
  IF \E i \in 1..Len(ret) : ret[i].name = name
  THEN CHOOSE i \in 1..Len(ret) : ret[i].name = name
  ELSE 0

\* if param_name not in ret: ret[param_name] = {'type': None, 'type_in_param': None, 'description': None}
RetEnsure(ret, name) ==
  IF RetIndex(ret, name) # 0 THEN ret
  ELSE Append(ret, [name |-> name, type |-> None, type_in_param |-> None,
                    description |-> None])

ParamStore(r1, i, param_type, param_description) ==
  [r1 EXCEPT ![i].type_in_param =
                IF param_type # None /\ param_type # "" THEN param_type ELSE @,
             ![i].description =
                IF param_description # None /\ param_description # ""
                THEN Strip(param_description) ELSE @]

ParamStoreIn(r1, param_name, param_type, param_description) ==
  ParamStore(r1, RetIndex(r1, param_name), param_type, param_description)

ParamNamed(ret, param_name, param_type, param_description) ==
  IF param_name # None /\ param_name # ""
  THEN [name |-> param_name,
        ret  |-> ParamStoreIn(RetEnsure(ret, param_name), param_name, param_type,
                              param_description)]
  ELSE [name |-> None, ret |-> ret]

\* res is what re.split(r'\s+', ...) gives for the text before the colon
ParamOfWords(ret, res, param_description) ==
  ParamNamed(ret,
             IF Len(res) = 1 THEN Strip(res[1])
             ELSE IF Len(res) = 2 THEN Strip(res[2]) ELSE None,
             IF Len(res) = 2 THEN Strip(res[1]) ELSE None,
             param_description)

ParamOfParts(ret, has, parts) ==
  ParamOfWords(ret, IF has THEN SplitWS(Strip(parts[1])) ELSE << >>,
               IF has THEN parts[2] ELSE None)

ParamOfLine(ret, line) == ParamOfParts(ret, Contains(line, ":"), SplitOnce(line, ":"))

\* DocsTools.__parse_param(striped, style_param, ret): the element's name and the new ret
parse_param(striped, style_param, ret) ==
  ParamOfLine(ret, Strip(ReplaceFirst(striped, style_param, "")))

TypeStore(r1, i, param_type) ==
  IF param_type # None /\ param_type # ""
  THEN [r1 EXCEPT ![i].type = Strip(param_type)] ELSE r1

TypeStoreIn(r1, param_name, param_type) ==
  TypeStore(r1, RetIndex(r1, param_name), param_type)

TypeNamed(ret, param_name, param_type) ==
  IF param_name # None /\ param_name # ""
  THEN [name |-> param_name,
        ret  |-> TypeStoreIn(RetEnsure(ret, param_name), param_name, param_type)]
  ELSE [name |-> None, ret |-> ret]

TypeOfParts(ret, has, parts) ==
  TypeNamed(ret, IF has THEN Strip(parts[1]) ELSE None,
            IF has THEN Strip(parts[2]) ELSE None)

TypeOfLine(ret, line) == TypeOfParts(ret, Contains(line, ":"), SplitOnce(line, ":"))

\* DocsTools.__parse_param_type(striped, style_type, ret)
parse_param_type(striped, style_type, ret) ==
  TypeOfLine(ret, Strip(ReplaceFirst(striped, style_type, "")))

RECURSIVE TagElementsLoop(_, _, _, _, _, _)
\* the loop goes on after a param or a type line, which parsed to r
TagElementsNext(style, lines, i, r, nature) ==
  TagElementsLoop(style, lines, i + 1, r.ret, nature, r.name)

\* ret[current_element]['description'] += '\n' + line, the current element
\* being the k-th of ret; ret[None] raises KeyError
TagElementsMore(style, lines, i, ret, nature, name, k) ==
  IF k = 0 THEN [ret |-> ret, exc |-> TRUE]
  ELSE TagElementsLoop(style, lines, i + 1,
         [ret EXCEPT ![k].description = (IF @ = None THEN "" ELSE @) \o NL \o lines[i]],
         nature, name)

TagElementsLine(style, lines, i, ret, nature, name, striped) ==
  LET style_param  == OptName("param", style)
      style_type   == OptName("type", style)
      style_rtype  == OptName("rtype", style)
      style_return == SliceTo(OptName("return", style), -1)
      style_raise  == SliceTo(OptName("raise", style), -1)
  IN  IF StartsWith(striped, style_param)
      THEN TagElementsNext(style, lines, i, parse_param(striped, style_param, ret), "param")
      ELSE IF StartsWith(striped, style_type)
      THEN TagElementsNext(style, lines, i, parse_param_type(striped, style_type, ret),
                           "type")
      ELSE IF StartsWith(striped, style_raise) \/ StartsWith(striped, style_return)
              \/ StartsWith(striped, style_rtype)
      THEN TagElementsLoop(style, lines, i + 1, ret, "raise-return", None)
      ELSE IF nature \in {"param", "type"}
      THEN TagElementsMore(style, lines, i, ret, nature, name, RetIndex(ret, name))
      ELSE TagElementsLoop(style, lines, i + 1, ret, nature, name)

\* the for loop of _extra_tagstyle_elements over the lines from the i-th on;
\* nature is "" while current_element is None.  ret[None] raises KeyError:
\* the loop ends there with exc set.
TagElementsLoop(style, lines, i, ret, nature, name) ==
  IF i > Len(lines) THEN [ret |-> ret, exc |-> FALSE]
  ELSE TagElementsLine(style, lines, i, ret, nature, name, Strip(lines[i]))

\* DocsTools._extra_tagstyle_elements(data): ret, and whether KeyError was raised
extra_tagstyle_elements(style, data) ==
  TagElementsLoop(style, SplitLines(data), 1, << >>, "", None)

(***************************************************************************)
(* docs_tools.py: DocToolsBase, NumpydocTools, GoogledocTools.  The tool   *)
(* is named by its style, "numpydoc" or "google".                          *)
(***************************************************************************)
\* lst[a:b] for a Python list
ListSlice(lst, a, b) == SubSeq(lst, NormIdx(a, Len(lst)) + 1, NormIdx(b, Len(lst)))

\* lst[a:]
ListFrom(lst, a) == SubSeq(lst, NormIdx(a, Len(lst)) + 1, Len(lst))

\* self.opt[key]
ToolOpt(tool, key) == IF tool = "numpydoc" THEN NumpyOpt(key) ELSE GoogleOpt(key)

RECURSIVE NumpyStartLoop(_, _, _)
NumpyStartLoop(data, i, start) ==
  IF i > Len(data) THEN start
  ELSE IF start # -1 /\ IsDashLine(data[i]) THEN start
  ELSE NumpyStartLoop(data, i + 1,
                      IF isin_alone(NumpyOptValues, data[i]) THEN i - 1 ELSE -1)

RECURSIVE GoogleStartLoop(_, _)
GoogleStartLoop(data, i) ==
  IF i > Len(data) THEN -1
  ELSE IF isin_alone([k \in 1..Len(GoogleOptValues) |-> GoogleOptValues[k] \o ":"], data[i])
       THEN i - 1
  ELSE GoogleStartLoop(data, i + 1)

\* NumpydocTools.get_next_section_start_line, GoogledocTools.get_next_section_start_line
get_next_section_start_line(tool, data) ==
  IF tool = "numpydoc" THEN NumpyStartLoop(data, 1, -1) ELSE GoogleStartLoop(data, 1)

NextSectionEnd(tool, data, start) ==
  << start,
     IF start # -1
     THEN get_next_section_start_line(tool, ListFrom(data, start + 1))
     ELSE -1 >>

\* DocToolsBase.get_next_section_lines(data)
get_next_section_lines(tool, data) ==
  NextSectionEnd(tool, data, get_next_section_start_line(tool, data))

RECURSIVE SectionKeyLoop(_, _, _, _)
\* one turn of the while loop of get_section_key_line, the next section
\* starting at line start
SectionKeyAt(tool, data, key, init, start) ==
  IF start = -1 THEN -1
  ELSE IF Lower(Strip(data[init + start + 1]))
          = ToolOpt(tool, key) \o (IF tool = "google" THEN ":" ELSE "")
       THEN init + start
  ELSE SectionKeyLoop(tool, data, key, init + start + 1)

SectionKeyLoop(tool, data, key, init) ==
  SectionKeyAt(tool, data, key, init,
               get_next_section_start_line(tool, ListFrom(data, init)))

\* DocToolsBase.get_section_key_line(data, key, opt_extension)
get_section_key_line(tool, data, key) == SectionKeyLoop(tool, data, key, 0)

\* key_list.append((key, desc, ptype)) if parse_key
KeyListWith(key_list, parse_key, key, desc, ptype) ==
  IF parse_key THEN Append(key_list, << key, desc, ptype >>) ELSE key_list

\* desc with line added to it
DescWith(desc, line) == (IF desc # "" THEN desc \o NL ELSE "") \o line

\* line.replace(spaces, '', 1) if len(curr_spaces) > len(spaces)
LineLessSpaces(line, spaces, curr_spaces) ==
  IF Len(curr_spaces) > Len(spaces) THEN ReplaceFirst(line, spaces, "") ELSE line

RECURSIVE NumpyListLoop(_, _, _, _, _, _, _, _)
\* a line that starts a key: elems is line.split(':', 1)
NumpyKeyLine(spaces, lines, i, key_list, elems) ==
  NumpyListLoop(spaces, lines, i + 1, key_list, TRUE, Strip(elems[1]), "",
                IF Len(elems) > 1 THEN Strip(elems[2]) ELSE None)

NumpyListLine(spaces, lines, i, key_list, parse_key, key, desc, ptype, curr_spaces) ==
  IF Len(Strip(lines[i])) = 0
  THEN NumpyListLoop(spaces, lines, i + 1, key_list, parse_key, key, desc, ptype)
  ELSE IF Len(curr_spaces) = Len(spaces)
  THEN NumpyKeyLine(spaces, lines, i, KeyListWith(key_list, parse_key, key, desc, ptype),
                    SplitOnce(lines[i], ":"))
  ELSE NumpyListLoop(spaces, lines, i + 1, key_list, parse_key, key,
                     DescWith(desc, LineLessSpaces(lines[i], spaces, curr_spaces)), ptype)

\* NumpydocTools._get_list_key: the for loop, then the last append
NumpyListLoop(spaces, lines, i, key_list, parse_key, key, desc, ptype) ==
  IF i > Len(lines) THEN KeyListWith(key_list, parse_key, key, desc, ptype)
  ELSE NumpyListLine(spaces, lines, i, key_list, parse_key, key, desc, ptype,
                     get_leading_spaces(lines[i]))

GoogleKeyTypeAt(key0, tstart, tend) ==
  << Strip(SliceTo(key0, tstart - 1)), Strip(Slice(key0, tstart, tend)) >>

\* the key and the type of a Google "name (type, optional)" key
GoogleKeyType(key0) ==
  IF Contains(key0, "(") /\ Contains(key0, ")")
  THEN GoogleKeyTypeAt(key0, Find(key0, "(") + 1,
                       IF Contains(key0, ",") THEN Find(key0, ",") ELSE Find(key0, ")"))
  ELSE << key0, None >>

RECURSIVE GoogleListLoop(_, _, _, _, _, _, _, _, _)
\* a line that starts a key: elems is line.split(':', 1), kt the key and its type
GoogleKeyLine(spaces, lines, i, kl, elems, kt, param_spaces) ==
  GoogleListLoop(spaces, lines, i + 1, kl, TRUE, kt[1], Strip(elems[2]), kt[2],
                 param_spaces)

GoogleKeyOf(spaces, lines, i, kl, elems, param_spaces) ==
  GoogleKeyLine(spaces, lines, i, kl, elems, GoogleKeyType(Strip(elems[1])), param_spaces)

\* a line that is not blank: kl is the key list with the pending key, d2 the
\* description with the line
GoogleListAt(spaces, lines, i, key_list, kl, parse_key, key, d2, ptype, curr_spaces,
             param_spaces) ==
  IF Len(curr_spaces) = param_spaces
  THEN IF Contains(lines[i], ":")
       THEN GoogleKeyOf(spaces, lines, i, kl, SplitOnce(lines[i], ":"), param_spaces)
       ELSE GoogleListLoop(spaces, lines, i + 1, kl, parse_key, key, d2, ptype,
                           param_spaces)
  ELSE GoogleListLoop(spaces, lines, i + 1, key_list, parse_key, key, d2, ptype,
                      param_spaces)

GoogleListLine(spaces, lines, i, key_list, parse_key, key, desc, ptype, param_spaces0,
               curr_spaces) ==
  IF Len(Strip(lines[i])) = 0
  THEN GoogleListLoop(spaces, lines, i + 1, key_list, parse_key, key, desc, ptype,
                      param_spaces0)
  ELSE GoogleListAt(spaces, lines, i, key_list,
                    KeyListWith(key_list, parse_key, key, desc, ptype), parse_key, key,
                    DescWith(desc, LineLessSpaces(lines[i], spaces, curr_spaces)), ptype,
                    curr_spaces,
                    IF param_spaces0 = 0 THEN Len(curr_spaces) ELSE param_spaces0)

\* GoogledocTools._get_list_key: the for loop, then the last append
GoogleListLoop(spaces, lines, i, key_list, parse_key, key, desc, ptype, param_spaces0) ==
  IF i > Len(lines)
  THEN KeyListWith(key_list, parse_key \/ desc # "", key, desc, ptype)
  ELSE GoogleListLine(spaces, lines, i, key_list, parse_key, key, desc, ptype,
                      param_spaces0, get_leading_spaces(lines[i]))

\* self._get_list_key(spaces, lines)
ToolListKey(tool, spaces, lines) ==
  IF tool = "numpydoc"
  THEN NumpyListLoop(spaces, lines, 1, << >>, FALSE, None, "", None)
  ELSE GoogleListLoop(spaces, lines, 1, << >>, FALSE, None, "", None, 0)

\* the section whose key is at line init, se being the start and the end of
\* the next section from there; header_lines is 2 for NumpydocTools, 1 for
\* GoogledocTools
ListKeyLines(tool, data, init, se) ==
  ToolListKey(tool, get_leading_spaces(data[init + se[1] + 1]),
              ListSlice(data, se[1] + init + (IF tool = "numpydoc" THEN 2 ELSE 1),
                        IF se[2] # -1 THEN se[2] + init ELSE Len(data)))

ListKeyAt(tool, data, init) ==
  IF init = -1 THEN << >>
  ELSE ListKeyLines(tool, data, init, get_next_section_lines(tool, ListFrom(data, init)))

ListKeyIn(tool, data, key) == ListKeyAt(tool, data, get_section_key_line(tool, data, key))

\* get_list_key(data, key)
get_list_key(tool, data0, key) == ListKeyIn(tool, SplitLines(data0), key)

RaiseListOf(lst) == [i \in 1..Len(lst) |-> << lst[i][1], lst[i][2] >>]

\* DocToolsBase.get_raise_list(data)
get_raise_list(tool, data) == RaiseListOf(get_list_key(tool, data, "raise"))

ReturnListOf(lst) ==
  [i \in 1..Len(lst) |->
     IF lst[i][3] = None THEN << None, Strip(lst[i][2]), lst[i][1] >> ELSE lst[i]]

\* DocToolsBase.get_return_list(data)
get_return_list(tool, data) == ReturnListOf(get_list_key(tool, data, "return"))

\* DocToolsBase.get_param_list(data)
get_param_list(tool, data) == get_list_key(tool, data, "param")

\* the section names that NumpydocTools.get_raw_not_managed keeps
NumpyNotManaged ==
  << "see also", "attributes", "examples", "methods", "notes", "other parameters",
     "references" >>

\* the lines of a section, each without its first spaces and its trailing blanks
SectionText(part, spaces) ==
  Join([i \in 1..Len(part) |-> RStrip(ReplaceFirst(part[i], spaces, ""))], NL)

RECURSIVE RawNotManagedLoop(_, _, _)
\* a section whose name is at line init + 1, se being its start and its end
RawNotManagedAt(data, raw, se, init) ==
  RawNotManagedLoop(data, init + 2,
    IF isin_alone(NumpyNotManaged, data[init + 1])
    THEN raw \o SectionText(IF se[2] # -1 THEN ListSlice(data, init, init + se[2])
                            ELSE ListFrom(data, init),
                            get_leading_spaces(data[init + 1])) \o NL
    ELSE raw)

RawNotManagedFrom(data, init0, raw, se) ==
  IF se[1] = -1 THEN raw ELSE RawNotManagedAt(data, raw, se, init0 + se[1])

RawNotManagedLoop(data, init0, raw) ==
  RawNotManagedFrom(data, init0, raw,
                    get_next_section_lines("numpydoc", ListFrom(data, init0)))

\* NumpydocTools.get_raw_not_managed(data)
get_raw_not_managed(data) == RawNotManagedLoop(SplitLines(data), 0, "")

(***************************************************************************)
(* docs_tools.py: DocsTools, the groups style                              *)
(***************************************************************************)
RECURSIVE GroupKeyLineLoop(_, _, _, _)
GroupKeyLineLoop(lines, key, i, idx) ==
  IF i > Len(lines) THEN idx
  ELSE GroupKeyLineLoop(lines, key, i + 1,
                        IF isin_start(GroupWords(key), lines[i]) THEN i - 1 ELSE idx)

\* DocsTools.get_group_key_line(data, key): the last line that starts with a word of the group
get_group_key_line(data, key) == GroupKeyLineLoop(SplitLines(data), key, 1, -1)

\* if (i < idx and i != -1) or idx == -1: idx = i
GroupLineMin(i, idx) == IF (i < idx /\ i # -1) \/ idx = -1 THEN i ELSE idx

RECURSIVE GroupLineLoop(_, _, _)
GroupLineLoop(data, k, idx) ==
  IF k > Len(GroupKeys) THEN idx
  ELSE GroupLineLoop(data, k + 1,
                     GroupLineMin(get_group_key_line(data, GroupKeys[k]), idx))

\* DocsTools.get_group_line(data)
get_group_line(data) == GroupLineLoop(data, 1, -1)

GroupIndexAt(lines, li) ==
  IF li = -1 THEN -1
  ELSE SumSeq([i \in 1..Len(ListSlice(lines, 0, li)) |-> Len(lines[i]) + 1])

\* DocsTools.get_group_index(data)
get_group_index(data) == GroupIndexAt(SplitLines(data), get_group_line(data))

\* [\W\s]+ ends before index p of s, where (\w[\s\w]+) can start
GroupTail(s, p) ==
  /\ p + 1 < Len(s)
  /\ At(s, p) \in WordChars
  /\ At(s, p + 1) \in WordChars \cup WhiteSpace

\* the lengths << a, b, c >> of \W*, (NAME+) and [\W\s]+ in the matches of
\* r'^\W*(NAME+)[\W\s]+(\w[\s\w]+)' with s
GroupCands(s, name) ==
  UNION { UNION { { << a, b, c >> :
                    c \in {x \in 1..NotSpanLen(s, WordChars, a + b) :
                             GroupTail(s, a + b + x)} } :
                  b \in 1..SpanLen(s, name, a) } :
          a \in 0..NotSpanLen(s, WordChars, 0) }

\* the order in which a backtracking matcher tries the candidates: the
\* longest \W* first, then the longest name, then the longest separator
GroupBetter(t, u) ==
  \/ t[1] > u[1]
  \/ t[1] = u[1] /\ t[2] > u[2]
  \/ t[1] = u[1] /\ t[2] = u[2] /\ t[3] >= u[3]

GroupBest(cands) == CHOOSE t \in cands : \A u \in cands : GroupBetter(t, u)

GroupMatchAt(s, best, p) ==
  << Slice(s, best[1], best[1] + best[2]),
     Slice(s, p, p + SpanLen(s, WordChars \cup WhiteSpace, p)) >>

GroupMatchBest(s, best) == GroupMatchAt(s, best, best[1] + best[2] + best[3])

GroupMatchOf(s, cands) == IF cands = {} THEN << >> ELSE GroupMatchBest(s, GroupBest(cands))

\* re.match(r'^\W*(NAME+)[\W\s]+(\w[\s\w]+)', s) with NAME the characters of
\* the set name: << group 1, group 2 >>, or << >> when s does not match
GroupEntryMatch(s, name) == GroupMatchOf(s, GroupCands(s, name))

GroupEntryWord(w) == IF w # None THEN << w, "" >> ELSE << >>

GroupEntryOf(s, m) ==
  IF m # << >> /\ Strip(m[1]) # "" THEN << Strip(m[1]), Strip(m[2]) >>
  ELSE IF m = << >> THEN GroupEntryWord(FirstWord(s))
  ELSE << >>

GroupEntryIn(s, name) == GroupEntryOf(s, GroupEntryMatch(s, name))

\* one line of a group: << name, description >>, or << >> when the line names nothing
GroupEntry(line, name) == GroupEntryIn(Strip(line), name)

GroupLinesTo(rest, e) == ListSlice(rest, 0, IF e # -1 THEN e ELSE Len(rest))

GroupLinesOf(rest) == GroupLinesTo(rest, get_group_line(Join(rest, NL)))

GroupLinesFrom(data, idx) ==
  IF idx >= 0 THEN GroupLinesOf(ListFrom(SplitLines(data), idx + 1)) ELSE << >>

\* the lines of the group of key: data.splitlines()[idx + 1:][:end]
GroupLines(data, key) == GroupLinesFrom(data, get_group_key_line(data, key))

GroupEntrySeq(e) == IF e = << >> THEN << >> ELSE << e >>

RECURSIVE GroupEntries(_, _, _)
GroupEntries(lines, name, i) ==
  IF i > Len(lines) THEN << >>
  ELSE GroupEntrySeq(GroupEntry(lines[i], name)) \o GroupEntries(lines, name, i + 1)

(***************************************************************************)
(* docstring.py: DocString, the extraction of docs['in'] (parse_docs)      *)
(***************************************************************************)
\* the loop bound of the extraction loops
maxi == 10000

\* DocString._options
options ==
  [hint_rtype_priority |-> TRUE, hint_type_priority |-> TRUE,
   rst_type_in_param_priority |-> TRUE]

DedentLines(lines, spaces) ==
  Join([i \in 1..Len(lines) |-> ReplaceFirst(RStrip(lines[i]), spaces, "")], NL)

\* '\n'.join([d.rstrip().replace(self.docs['out']['spaces'], '', 1)
\*            for d in self.docs['in']['raw'].splitlines()])
Dedent(raw, spaces) == DedentLines(SplitLines(raw), spaces)

RECURSIVE DoctestLoop(_, _)
\* the doctest block at the lines se of datalst goes from raw to doctests
DoctestCut(doctests, datalst, se) ==
  DoctestLoop(Join(ListSlice(datalst, 0, se[1]) \o ListFrom(datalst, se[2] + 1), NL),
              (IF doctests # "" THEN doctests \o NL ELSE "")
                \o Join(ListSlice(datalst, se[1], se[2] + 1), NL) \o NL)

DoctestAt(raw, doctests, se) ==
  IF se[1] = -1 THEN [raw |-> raw, doctests |-> doctests]
  ELSE DoctestCut(doctests, SplitLines(raw), se)

\* the while loop of _extract_docs_doctest: docs['in']['raw'], docs['in']['doctests']
DoctestLoop(raw, doctests) == DoctestAt(raw, doctests, get_doctests_indexes(raw))

DoctestsOf(r, out_doctests, spaces) ==
  [raw |-> r.raw, in_doctests |-> r.doctests,
   out_doctests |-> IF r.doctests # "" THEN Dedent(r.doctests, spaces)
                    ELSE out_doctests,
   written |-> r.doctests # ""]

\* DocString._extract_docs_doctest(): the new docs['in']['raw'] and
\* docs['in']['doctests'], and docs['out']['doctests'] (written to only
\* when some doctest was found, now or before)
extract_docs_doctest(raw, in_doctests, out_doctests, spaces) ==
  DoctestsOf(DoctestLoop(raw, in_doctests), out_doctests, spaces)

GroupParams(es) == [i \in 1..Len(es) |-> << es[i][1], es[i][2], "" >>]

\* DocString._extract_groupstyle_docs_params(): the tuples appended
extract_groupstyle_docs_params(data) ==
  GroupParams(GroupEntries(GroupLines(data, "param"), WordChars, 1))

TagParams(r) ==
  [params |-> [i \in 1..Len(r.ret) |->
                 << r.ret[i].name,
                    IF r.ret[i].description \in {None, ""} THEN ""
                    ELSE r.ret[i].description,
                    IF options.rst_type_in_param_priority
                       /\ r.ret[i].type_in_param \notin {None, ""}
                    THEN r.ret[i].type_in_param ELSE r.ret[i].type >>],
   exc |-> r.exc]

\* DocString._extract_tagstyle_docs_params(): the tuples appended, and
\* whether extract_elements raised KeyError
extract_tagstyle_docs_params(style, data) == TagParams(extra_tagstyle_elements(style, data))

\* nothing is appended when KeyError was raised
TagParamsAppended(r) == [params |-> IF r.exc THEN << >> ELSE r.params, exc |-> r.exc]

DocsParamsOf(style, data) ==
  IF style \in {"numpydoc", "google"}
  THEN [params |-> get_param_list(style, data), exc |-> FALSE]
  ELSE IF style = "groups"
  THEN [params |-> extract_groupstyle_docs_params(data), exc |-> FALSE]
  ELSE IF style \in {"javadoc", "reST"}
  THEN TagParamsAppended(extract_tagstyle_docs_params(style, data))
  ELSE [params |-> << >>, exc |-> FALSE]

\* DocString._extract_docs_params(): what is appended to docs['in']['params']
extract_docs_params(style, raw, spaces) == DocsParamsOf(style, Dedent(raw, spaces))

\* docs[..]['return'] is None, a string, or the list of get_return_list
NoReturn == [kind |-> "none", text |-> "", items |-> << >>]

StrReturn(s) == [kind |-> "str", text |-> s, items |-> << >>]

ListReturn(l) == [kind |-> "list", text |-> "", items |-> l]

\* DocString._extract_groupstyle_docs_return()
extract_groupstyle_docs_return(data, in_return) ==
  IF get_group_key_line(data, "return") >= 0
  THEN StrReturn(RStrip(Strip(Join(GroupLines(data, "return"), NL))))
  ELSE in_return

\* data[start:end].rstrip() if end >= 0 else data[start:].rstrip(), r being
\* << start, end >>
RangeText(data, r) ==
  RStrip(IF r[2] >= 0 THEN Slice(data, r[1], r[2]) ELSE SliceFrom(data, r[1]))

TagReturnOf(data, in_return, in_rtype, d, t) ==
  << IF d[1] >= 0 THEN StrReturn(RangeText(data, d)) ELSE in_return,
     IF t[1] >= 0 THEN RangeText(data, t) ELSE in_rtype >>

\* DocString._extract_tagstyle_docs_return(): << docs['in']['return'], docs['in']['rtype'] >>
extract_tagstyle_docs_return(style, data, in_return, in_rtype) ==
  TagReturnOf(data, in_return, in_rtype, get_return_description_indexes(style, data),
              get_return_type_indexes(style, data))

DocsReturnOf(style, data, in_return, in_rtype) ==
  IF style \in {"numpydoc", "google"}
  THEN << ListReturn(get_return_list(style, data)), None >>
  ELSE IF style = "groups"
  THEN << extract_groupstyle_docs_return(data, in_return), in_rtype >>
  ELSE IF style \in {"javadoc", "reST"}
  THEN extract_tagstyle_docs_return(style, data, in_return, in_rtype)
  ELSE << in_return, in_rtype >>

\* DocString._extract_docs_return(): << docs['in']['return'], docs['in']['rtype'] >>
extract_docs_return(style, raw, spaces, in_return, in_rtype) ==
  DocsReturnOf(style, Dedent(raw, spaces), in_return, in_rtype)

\* DocString._extract_groupstyle_docs_raises(): the tuples appended
extract_groupstyle_docs_raises(data) ==
  GroupEntries(GroupLines(data, "raise"), WordChars \cup {"."}, 1)

RECURSIVE TagRaisesLoop(_, _, _)
\* one raise, ri being the range of its name and di of its description
TagRaiseAt(style, data, i, ri, di) ==
  << << Slice(data, ri[1], ri[2]),
        IF di[1] > 0 THEN Strip(Slice(data, di[1], di[2])) ELSE "" >> >>
  \o (IF i + 1 > maxi THEN << >>
      ELSE TagRaisesLoop(style, SliceFrom(data, di[2]), i + 1))

TagRaiseFrom(style, data, i, ri) ==
  IF ri[1] < 0 THEN << >>
  ELSE TagRaiseAt(style, data, i, ri, get_raise_description_indexes(style, data, ri[2]))

\* the while loop of _extract_tagstyle_docs_raises, i the iterations done
TagRaisesLoop(style, data, i) ==
  TagRaiseFrom(style, data, i, get_raise_indexes(style, data))

\* DocString._extract_tagstyle_docs_raises(): the tuples appended
extract_tagstyle_docs_raises(style, data) == TagRaisesLoop(style, data, 0)

\* re.match(r'^([\w]+)', s): group 1, or None
ParamNameMatch(s) == WordAt(s, 0, SpanLen(s, WordChars, 0))

ParamIndexesOf(data, idx0, idx_p, param) ==
  IF idx0 >= 0 /\ param # None
  THEN RaiseRange(idx_p + Find(SliceFrom(data, idx_p), param), param)
  ELSE << -1, -1 >>

ParamIndexesAt(style, data, idx0) ==
  ParamIndexesOf(data, idx0, idx0 + Len(OptName("param", style)),
                 ParamNameMatch(Strip(SliceFrom(data, idx0 + Len(OptName("param", style))))))

\* DocsTools.get_param_indexes(data), for a tag style
get_param_indexes(style, data) ==
  ParamIndexesAt(style, data, get_key_index(style, data, "param"))

\* the description starts at start, the index in data[prev:] of its first word
ParamDescRange(style, data, prev, start) ==
  IF Contains(Slice(data, prev, prev + start), NL) THEN << -1, -1 >>
  ELSE RaiseDescRange(style, data, start + prev)

ParamDescOf(style, data, prev, first) ==
  IF prev < 0 \/ first = None THEN << -1, -1 >>
  ELSE ParamDescRange(style, data, prev, Find(SliceFrom(data, prev), first))

\* DocsTools.get_param_description_indexes(data, prev), for a tag style
get_param_description_indexes(style, data, prev0) ==
  ParamDescOf(style, data,
              IF prev0 = 0 THEN get_param_indexes(style, data)[2] ELSE prev0,
              FirstWord(SliceFrom(data,
                IF prev0 = 0 THEN get_param_indexes(style, data)[2] ELSE prev0)))

\* re.match(r'\W*(\w+)\W+(\w+)\W*', s): << group 1, group 2 >>, or None, a being
\* the index of the first word, n1 its length and g the length of the gap after it
TypeMatchAt(s, a, n1, g) ==
  IF n1 = 0 \/ g = 0 \/ SpanLen(s, WordChars, a + n1 + g) = 0 THEN None
  ELSE << Slice(s, a, a + n1),
          Slice(s, a + n1 + g, a + n1 + g + SpanLen(s, WordChars, a + n1 + g)) >>

TypeMatchFrom(s, a) ==
  TypeMatchAt(s, a, SpanLen(s, WordChars, a),
              NotSpanLen(s, WordChars, a + SpanLen(s, WordChars, a)))

TypeMatch(s) == TypeMatchFrom(s, NotSpanLen(s, WordChars, 0))

\* start = data[idx:].find(desc) + idx; end = self.get_elem_index(data[start:])
TypeRange(style, data, start) == RaiseDescRange(style, data, start)

TypeIndexesOf(style, data, name, idx, m) ==
  IF m # None /\ (name = "" \/ m[1] = name)
  THEN TypeRange(style, data, Find(SliceFrom(data, idx), m[2]) + idx)
  ELSE << -1, -1 >>

TypeIndexesAt(style, data, name, prev, idx) ==
  IF idx >= 0 /\ StartsWith(SliceFrom(data, prev + idx), OptName("type", style))
  THEN TypeIndexesOf(style, data, name, prev + idx + Len(OptName("type", style)),
                     TypeMatch(Strip(SliceFrom(data, prev + idx + Len(OptName("type", style))))))
  ELSE << -1, -1 >>

TypeIndexesFrom(style, data, name, prev) ==
  IF prev >= 0
  THEN TypeIndexesAt(style, data, name, prev, get_elem_index(style, SliceFrom(data, prev)))
  ELSE << -1, -1 >>

\* DocsTools.get_param_type_indexes(data, name, prev), for a tag style
get_param_type_indexes(style, data, name, prev0) ==
  TypeIndexesFrom(style, data, name,
                  IF prev0 = 0 THEN get_param_description_indexes(style, data, 0)[2]
                  ELSE prev0)

\* if end == -1: end = param_end
ParamEnd(di, param_end) == IF di[2] = -1 THEN param_end ELSE di[2]

\* the text is left as it is
RestOfText_kept(data, end) == data

\* data = data[end:], the text the next iteration of an index-scan loop scans
RestOfText(data, end) == SliceFrom(data, end)

\* the tuple appended by an iteration of _old_extract_tagstyle_docs_params, pi
\* being the range of the name, di of the description and ti of the type
OldParamTuple(data, pi, di, ti) ==
  << Slice(data, pi[1], pi[2]),
     IF di[1] > 0 THEN Strip(Slice(data, di[1], di[2])) ELSE "",
     IF ti[1] > 0 THEN Strip(Slice(data, ti[1], ti[2])) ELSE "" >>

\* the tuple appended by an iteration of _extract_tagstyle_docs_raises
RaiseTuple(data, ri, di) ==
  << Slice(data, ri[1], ri[2]),
     IF di[1] > 0 THEN Strip(Slice(data, di[1], di[2])) ELSE "" >>

\* the state after an iteration of its while loop that finds the raise at ri
RaisesFound(c, ri, di) ==
  [c EXCEPT !.i = @ + 1, !.loop = c.i + 1 <= maxi, !.listed = @ + 1,
            !.found = Append(@, RaiseTuple(c.data, ri, di)),
            !.data = RestOfText(c.data, di[2])]

RaisesScanned(c, ri) ==
  IF ri[1] >= 0
  THEN RaisesFound(c, ri, get_raise_description_indexes(c.style, c.data, ri[2]))
  ELSE [c EXCEPT !.i = @ + 1, !.loop = FALSE]

\* the state after an iteration that finds the parameter at pi, its description
\* at di and end the index its type is looked up from
OldParamsFound(c, pi, di, end) ==
  [c EXCEPT !.i = @ + 1, !.loop = c.i + 1 <= maxi, !.listed = @ + 1,
            !.found = Append(@, OldParamTuple(c.data, pi, di,
                         get_param_type_indexes(c.style, c.data,
                                                Slice(c.data, pi[1], pi[2]), end))),
            !.data = RestOfText(c.data, end)]

OldParamsDescribed(c, pi, di) == OldParamsFound(c, pi, di, ParamEnd(di, pi[2]))

OldParamsScanned(c, pi) ==
  IF pi[1] >= 0
  THEN OldParamsDescribed(c, pi, get_param_description_indexes(c.style, c.data, pi[2]))
  ELSE [c EXCEPT !.i = @ + 1, !.loop = FALSE]

\* docs['in']['raw'] after the lines se of datalst are taken out
DoctestRest(datalst, se) ==
  Join(ListSlice(datalst, 0, se[1]) \o ListFrom(datalst, se[2] + 1), NL)

\* the state after an iteration of its while loop, on the lines datalst
DoctestTaken(c, datalst) ==
  [c EXCEPT !.result = TRUE,
            !.doctests = (IF @ # "" THEN @ \o NL ELSE "")
                           \o Join(ListSlice(datalst, c.se[1], c.se[2] + 1), NL) \o NL,
            !.raw = DoctestRest(datalst, c.se),
            !.se = get_doctests_indexes(DoctestRest(datalst, c.se))]

DocsRaisesOf(style, data) ==
  IF style \in {"numpydoc", "google"} THEN get_raise_list(style, data)
  ELSE IF style = "groups" THEN extract_groupstyle_docs_raises(data)
  ELSE IF style \in {"javadoc", "reST"} THEN extract_tagstyle_docs_raises(style, data)
  ELSE << >>

\* DocString._extract_docs_raises(): what is appended to docs['in']['raises']
extract_docs_raises(style, raw, spaces) == DocsRaisesOf(style, Dedent(raw, spaces))

CurrentDescTo(data, idx) ==
  IF idx = 0 THEN "" ELSE IF idx = -1 THEN data ELSE SliceTo(data, idx)

\* the index in the text of the start of line line_num
SectionIndex(lines, line_num) ==
  IF line_num = -1 THEN -1 ELSE Len(Join(ListSlice(lines, 0, line_num), NL))

SectionIndexIn(style, lines) ==
  SectionIndex(lines, get_next_section_start_line(style, lines))

CurrentDescOf(style, data) ==
  CurrentDescTo(data,
    IF style = "groups" THEN get_group_index(data)
    ELSE IF style \in {"google", "numpydoc"} THEN SectionIndexIn(style, SplitLines(data))
    ELSE IF style = "unknown" THEN -1
    ELSE get_elem_index(style, data))

\* DocString.__extract_current_desc()
extract_current_desc(style, raw, spaces) == CurrentDescOf(style, Dedent(raw, spaces))

(***************************************************************************)
(* docstring.py: DocString.parse_definition and the signature tokenizer    *)
(***************************************************************************)
\* the keys of end_inside
Openers == {"(", "{", "[", "'", "\""}

\* end_inside[c]
end_inside(c) ==
  CASE c = "(" -> ")"
    [] c = "{" -> "}"
    [] c = "[" -> "]"
    [] c = "'" -> "'"
    [] c = "\"" -> "\""

\* one iteration of the for loop of _remove_signature_comment on the character c;
\* inside is None outside any bracket or quote, done is set by the break
RemoveCommentStep(st, c) ==
  IF st.done THEN st
  ELSE IF (st.inside # None /\ end_inside(st.inside) # c)
          \/ (st.inside = None /\ c \in Openers)
  THEN [st EXCEPT !.ret = @ \o c, !.inside = IF @ = None THEN c ELSE @]
  ELSE IF st.inside # None /\ c = end_inside(st.inside)
  THEN [st EXCEPT !.ret = @ \o c, !.inside = None]
  ELSE IF st.inside = None /\ c = "#" THEN [st EXCEPT !.done = TRUE]
  ELSE [st EXCEPT !.ret = @ \o c]

RECURSIVE RemoveCommentLoop(_, _, _, _)
\* the iterations on the characters lo..hi of txt
RemoveCommentLoop(txt, lo, hi, st) ==
  IF lo > hi THEN st
  ELSE IF lo = hi THEN RemoveCommentStep(st, At(txt, lo))
  ELSE LET mid == (lo + hi) \div 2
           l   == RemoveCommentLoop(txt, lo, mid, st)
       IN  IF l.done THEN l ELSE RemoveCommentLoop(txt, mid + 1, hi, l)

\* DocString._remove_signature_comment(txt)
remove_signature_comment(txt) ==
  RemoveCommentLoop(txt, 0, Len(txt) - 1, [ret |-> "", inside |-> None, done |-> FALSE]).ret

\* ParamsConfig()
NewParam == [param |-> "", type |-> "", default |-> ""]

\* the if reading.startswith('after_') block: the new reading
AfterStep(reading, c) ==
  IF reading = "after_param" /\ c = ":" THEN "type"
  ELSE IF c = "," THEN "param"
  ELSE IF c = "=" THEN "default"
  ELSE reading

\* one iteration of the for loop of _extract_signature_elements on the
\* character c; the current parameter is the last of elems, and exc is set
\* by the "unexpected nested element" exception
SignatureStep(st, c) ==
  LET elems == st.elems
      reading == st.reading
      inside == st.inside
      n == Len(elems)
      cur == elems[n]
  IN  IF st.exc THEN st
      ELSE IF (inside # None /\ end_inside(inside) # c) \/ (inside = None /\ c \in Openers)
      THEN LET ins == IF inside = None THEN c ELSE inside
           IN  IF reading = "type"
               THEN [st EXCEPT !.elems[n].type = @ \o c, !.inside = ins]
               ELSE IF reading = "default"
               THEN [st EXCEPT !.elems[n].default = @ \o c, !.inside = ins]
               ELSE [st EXCEPT !.exc = TRUE]
      ELSE
        LET e1 == IF reading = "param" /\ c \notin {":", " ", ",", "="}
                  THEN [elems EXCEPT ![n].param = cur.param \o c]
                  ELSE IF reading = "type" /\ c \notin {",", "="}
                  THEN [elems EXCEPT ![n].type = cur.type \o c]
                  ELSE IF reading = "default" /\ c # ","
                  THEN [elems EXCEPT ![n].default = cur.default \o c]
                  ELSE elems
            r1 == IF reading = "param"
                  THEN (IF c \in {":", " ", ",", "="} /\ ((c = " " /\ cur.param # "") \/ c # " ")
                        THEN "after_param" ELSE "param")
                  ELSE IF reading = "type"
                  THEN (IF c \in {",", "="} THEN "after_type" ELSE "type")
                  ELSE IF reading = "default"
                  THEN (IF c = "," THEN "after_default" ELSE "default")
                  ELSE reading
            after == r1 \in {"after_param", "after_type", "after_default"}
        IN  [elems |-> IF after /\ c = "," THEN Append(e1, NewParam) ELSE e1,
             reading |-> IF after THEN AfterStep(r1, c) ELSE r1,
             inside |-> None,
             exc |-> FALSE]

RECURSIVE SignatureLoop(_, _, _, _)
\* the iterations on the characters lo..hi of s
SignatureLoop(s, lo, hi, st) ==
  IF lo > hi THEN st
  ELSE IF lo = hi THEN SignatureStep(st, At(s, lo))
  ELSE LET mid == (lo + hi) \div 2
           l   == SignatureLoop(s, lo, mid, st)
       IN  IF l.exc THEN l ELSE SignatureLoop(s, mid + 1, hi, l)

\* the state of the tokenizer before the first character
SignatureStart ==
  [elems |-> << NewParam >>, reading |-> "param", inside |-> None, exc |-> FALSE]

\* what _extract_signature_elements returns, r being the state of the
\* tokenizer after the last character
SignatureOf(r, return_type) ==
  [elems |-> [i \in 1..Len(r.elems) |->
                [param |-> Strip(r.elems[i].param), type |-> Strip(r.elems[i].type),
                 default |-> Strip(r.elems[i].default)]],
   rtype |-> Strip(return_type),
   exc |-> r.exc]

SignatureBody(body, return_type) ==
  SignatureOf(SignatureLoop(body, 0, Len(body) - 1, SignatureStart), return_type)

SignatureIn(txt, start, end_start, end_end) ==
  SignatureBody(Slice(txt, start, end_start),
                ReplaceAll(ReplaceAll(ReplaceAll(Slice(txt, end_start + 1, end_end),
                                                 " ", ""), "\t", ""), "->", ""))

\* DocString._extract_signature_elements(txt): the parameters, the return type, the exception flag
extract_signature_elements(txt) ==
  SignatureIn(txt, Find(txt, "(") + 1, RFind(txt, ")"), RFind(txt, ":"))

RECURSIVE RemoveSelfCls(_)
\* the parameters without self, cls and the empty names
RemoveSelfCls(lst) ==
  IF Len(lst) = 0 THEN << >>
  ELSE (IF lst[1].param \in {"self", "cls", ""} THEN << >> ELSE << lst[1] >>)
       \o RemoveSelfCls(Tail(lst))

\* the element of a def (is_def, async def included) or of a class, sig being
\* the elements of its signature
DefinitionOf(elem, is_def, name, sig) ==
  IF is_def
  THEN IF sig.exc
       THEN [elem |-> [elem EXCEPT !.deftype = "def", !.name = name], exc |-> TRUE]
       ELSE [elem |-> [elem EXCEPT !.deftype = "def", !.name = name,
                                   !.rtype = IF sig.rtype # "" THEN sig.rtype ELSE @,
                                   !.params = @ \o RemoveSelfCls(sig.elems)],
             exc |-> FALSE]
  ELSE [elem |-> [elem EXCEPT !.deftype = "class", !.name = name], exc |-> FALSE]

\* l is the line without its keyword
DefinitionIn(elem, is_def, l) ==
  DefinitionOf(elem, is_def, Strip(SliceTo(l, Find(l, "("))),
               extract_signature_elements(remove_signature_comment(l)))

DefinitionLine(elem, l0) ==
  IF StartsWith(l0, "async def ") \/ StartsWith(l0, "def ") \/ StartsWith(l0, "class ")
  THEN DefinitionIn(elem, StartsWith(l0, "def") \/ StartsWith(l0, "async"),
                    IF StartsWith(l0, "def") THEN ReplaceAll(l0, "def ", "")
                    ELSE IF StartsWith(l0, "async") THEN ReplaceAll(l0, "async def ", "")
                    ELSE ReplaceAll(l0, "class ", ""))
  ELSE [elem |-> elem, exc |-> FALSE]

\* DocString.parse_definition() on the CaseConfig elem (self.element): the
\* element afterwards, and whether the tokenizer raised
parse_definition(elem) == DefinitionLine(elem, Strip(elem.raw))

\* CaseConfig(spaces=spaces, raw=raw)
CaseConfig(spaces, raw) ==
  [spaces |-> spaces, name |-> "", type |-> "", params |-> << >>, rtype |-> "",
   raw |-> raw, deftype |-> "def"]

(***************************************************************************)
(* docstring.py: DocString, the merge into docs['out'] (generate_docs)     *)
(***************************************************************************)
\* the position of the last tuple of lst whose first component is name, else 0
LastIndexOf(lst, name) ==
  IF \E i \in 1..Len(lst) : lst[i][1] = name
  THEN CHOOSE i \in 1..Len(lst) : lst[i][1] = name /\ \A j \in (i + 1)..Len(lst) : lst[j][1] # name
  ELSE 0

RECURSIVE SigNames(_, _)
\* the keys of sig_params in insertion order: each name of the signature, once
SigNames(params, i) ==
  IF i > Len(params) THEN << >>
  ELSE (IF \E j \in 1..(i - 1) : params[j].param = params[i].param
        THEN << >> ELSE << params[i].param >>) \o SigNames(params, i + 1)

\* sig_params[name]: the last parameter of the signature with this name
SigParam(params, name) ==
  params[CHOOSE i \in 1..Len(params) :
           params[i].param = name /\ \A j \in (i + 1)..Len(params) : params[j].param # name]

\* __extract_params with the type of the comment taken before the type of
\* the signature
extract_param_comment_first(elem_params, in_params, name) ==
  LET sp == SigParam(elem_params, name)
      k  == LastIndexOf(in_params, name)
      sig_type == IF sp.type # "" THEN sp.type ELSE None
      out_default == IF sp.default # "" THEN normalize_default_value(sp.default) ELSE None
      docs_type == in_params[k][3]
      out_type == IF k # 0 /\ docs_type \notin {None, ""} THEN docs_type ELSE sig_type
  IN  << name, IF k # 0 THEN in_params[k][2] ELSE "", out_type, out_default >>

\* the tuple that DocString.__extract_params yields for name
extract_param(elem_params, in_params, name) ==
  LET sp == SigParam(elem_params, name)
      k  == LastIndexOf(in_params, name)
      sig_type == IF sp.type # "" THEN sp.type ELSE None
      out_default == IF sp.default # "" THEN normalize_default_value(sp.default) ELSE None
      docs_type == in_params[k][3]
      out_type == IF k # 0 /\ (sig_type = None
                               \/ (~options.hint_type_priority
                                   /\ docs_type \notin {None, ""}))
                  THEN docs_type ELSE sig_type
  IN  << name, IF k # 0 THEN in_params[k][2] ELSE "", out_type, out_default >>

\* list(DocString.__extract_params())
extract_params(elem_params, in_params) ==
  LET names == SigNames(elem_params, 1)
  IN  [i \in 1..Len(names) |-> extract_param(elem_params, in_params, names[i])]

\* DocString.__extract_desc()
extract_desc(in_desc) == IF in_desc \in {None, ""} THEN "" ELSE in_desc

\* DocString._set_raises(): the new docs['out']['raises']
set_raises(in_raises, out_raises) ==
  IF Len(in_raises) > 0 THEN in_raises ELSE out_raises

\* DocString.__extract_return(): << rtype, rcomment >>
extract_return(style_out, in_return, in_rtype, out_rtype, elem_rtype) ==
  LET lst == in_return.items
      conv == in_return.kind = "list" /\ style_out \notin {"groups", "numpydoc", "google"}
      rcomment == IF conv
                  THEN (IF Len(lst) = 0 THEN NoReturn
                        ELSE IF lst[1][1] # None
                        THEN StrReturn(lst[1][1] \o "-> " \o lst[1][2])
                        ELSE StrReturn(lst[1][2]))
                  ELSE in_return
      rtype == IF conv THEN (IF Len(lst) = 0 THEN None ELSE lst[1][3]) ELSE in_rtype
  IN  << IF (options.hint_rtype_priority \/ out_rtype \in {None, ""}) /\ elem_rtype # ""
         THEN elem_rtype ELSE rtype,
         rcomment >>

\* docs['out'] has no 'post' key
Absent == "<absent>"

\* DocString.__extract_other()
extract_other(style_in, in_raw, out_post) ==
  IF style_in = "numpydoc" /\ in_raw # None THEN get_raw_not_managed(in_raw)
  ELSE IF style_in = "numpydoc" /\ out_post \in {Absent, None} THEN ""
  ELSE None

(***************************************************************************)
(* comment_builder/strategy.py.  cfg is the CommentBuilderConfig, sp is    *)
(* case_config.spaces, style the output style (dst.style['out']).          *)
(***************************************************************************)
WithSpaceLines(cfg, lines, prefix, lstrip) ==
  Join([i \in 1..Len(lines) |->
          IF i = 1 THEN lines[i]
          ELSE IF LStrip(lines[i]) = "" /\ ~cfg.indent_empty_lines THEN ""
          ELSE prefix \o (IF lstrip THEN LStrip(lines[i]) ELSE lines[i])], NL)

\* the local with_space(s) of the strategies: every line but the first is
\* re-indented with prefix, after l.lstrip() when lstrip is set
WithSpace(cfg, s, prefix, lstrip) == WithSpaceLines(cfg, SplitLines(s), prefix, lstrip)

\* the suffix if the guard looked for 'default' in lower case only
DefaultValueText_case_sensitive(cfg, p) ==
  IF cfg.show_default_value /\ ~Contains(p[2], "default") /\ p[4] # None
  THEN (IF Strip(p[2]) # "" THEN " " ELSE "") \o "(Default value = " \o p[4] \o ")"
  ELSE ""

\* the "(Default value = ...)" suffix of a parameter p = (name, desc, type, default)
DefaultValueText(cfg, p) ==
  IF cfg.show_default_value /\ ~Contains(Lower(p[2]), "default") /\ p[4] # None
  THEN (IF Strip(p[2]) # "" THEN " " ELSE "") \o "(Default value = " \o p[4] \o ")"
  ELSE ""

\* DocsTools.get_key(key, 'out')
get_key(key, style) == OptName(key, style)

\* DocsTools.get_sep(target='out'), then sep + ' ' if sep != ' ' else sep
OutSep(style) ==
  LET sep == IF style \in {"numpydoc", "google"} THEN "" ELSE StyleSep(style)
  IN  IF sep # " " THEN sep \o " " ELSE sep

\* NumpydocTools.get_key_section_header, GoogledocTools.get_key_section_header
get_key_section_header(tool, key, spaces) ==
  LET header == CASE key = "param"  -> IF tool = "numpydoc" THEN "Parameters" ELSE "Args"
                  [] key = "return" -> "Returns"
                  [] key = "raise"  -> "Raises"
  IN  IF tool = "numpydoc"
      THEN spaces \o header \o NL \o spaces \o Times("-", Len(header)) \o NL
      ELSE spaces \o header \o ":" \o NL

\* '' + s for every s of the sequence, in order
Concat(seq) == Join(seq, "")

\* ' ' * self.config.num_of_spaces
Indent(cfg) == Times(" ", cfg.num_of_spaces)

\* the lines of the parameter p = (name, desc, type, default)
NumpyParam(cfg, sp, p) ==
  sp \o p[1] \o " :"
  \o (IF p[3] # None /\ Len(p[3]) > 0 THEN " " \o p[3] ELSE "") \o NL
  \o sp \o Indent(cfg) \o Strip(WithSpace(cfg, p[2], sp \o Indent(cfg), TRUE))
  \o DefaultValueText(cfg, p) \o NL

\* NumpydocStrategy.format_params_section(params)
NumpyParams(cfg, sp, params) ==
  IF cfg.skip_empty /\ Len(params) = 0 THEN NL
  ELSE NL \o get_key_section_header("numpydoc", "param", sp)
          \o Concat([i \in 1..Len(params) |-> NumpyParam(cfg, sp, params[i])])

GoogleParam(cfg, sp, p) ==
  sp \o Indent(cfg) \o p[1]
  \o (IF p[3] # None /\ Len(p[3]) > 0
      THEN " (" \o p[3] \o (IF p[4] # None THEN ", optional" ELSE "") \o ")"
      ELSE "")
  \o ": " \o Strip(WithSpace(cfg, p[2], sp, TRUE))
  \o DefaultValueText(cfg, p) \o NL

\* GoogleStrategy.format_params_section(params)
GoogleParams(cfg, sp, params) ==
  IF cfg.skip_empty /\ Len(params) = 0 THEN NL
  ELSE NL \o get_key_section_header("google", "param", sp)
          \o Concat([i \in 1..Len(params) |-> GoogleParam(cfg, sp, params[i])])

DefaultParam(cfg, sp, style, p) ==
  sp \o get_key("param", style) \o " " \o p[1] \o OutSep(style)
  \o Strip(WithSpace(cfg, p[2], sp, FALSE))
  \o DefaultValueText(cfg, p)
  \o (IF cfg.type_tags /\ p[3] # None /\ Len(p[3]) > 0
      THEN NL \o sp \o get_key("type", style) \o " " \o p[1] \o OutSep(style) \o p[3]
      ELSE "")
  \o NL

\* DefaultStrategy.format_params_section(params)
DefaultParams(cfg, sp, style, params) ==
  IF cfg.skip_empty /\ Len(params) = 0 THEN NL
  ELSE NL \o Concat([i \in 1..Len(params) |-> DefaultParam(cfg, sp, style, params[i])])

\* bool(return_desc)
ReturnTruthy(rd) ==
  \/ rd.kind = "str" /\ rd.text # ""
  \/ rd.kind = "list" /\ Len(rd.items) > 0

\* the lines of the return entry e = (name, desc, type)
NumpyReturnItem(cfg, sp, e) ==
  sp \o (IF e[1] \notin {None, ""} THEN e[1] \o " : " ELSE "")
  \o (IF e[3] = None THEN "" ELSE e[3]) \o NL
  \o sp \o Indent(cfg) \o Strip(WithSpace(cfg, e[2], sp \o Indent(cfg), TRUE)) \o NL

\* NumpydocStrategy.format_return_section(return_desc, return_type, params)
NumpyReturn(cfg, sp, return_desc, return_type) ==
  IF cfg.skip_empty /\ ~ReturnTruthy(return_desc) THEN ""
  ELSE NL \o get_key_section_header("numpydoc", "return", sp)
       \o (IF return_desc.kind = "list"
           THEN Concat([i \in 1..Len(return_desc.items) |->
                          NumpyReturnItem(cfg, sp, return_desc.items[i])])
           ELSE IF return_desc.kind = "str"
           THEN sp \o (IF return_type \notin {None, ""} THEN return_type ELSE "type")
                \o NL \o sp \o Indent(cfg)
                \o Strip(WithSpace(cfg, return_desc.text, sp \o Indent(cfg), TRUE)) \o NL
           ELSE "")

GoogleReturnItem(cfg, sp, e) ==
  sp \o Indent(cfg) \o (IF e[3] = None THEN "" ELSE e[3]) \o ": "
  \o Strip(WithSpace(cfg, e[2], sp \o Indent(cfg), TRUE)) \o NL

\* GoogleStrategy.format_return_section(return_desc, return_type, params)
GoogleReturn(cfg, sp, return_desc, return_type) ==
  IF cfg.skip_empty /\ ~ReturnTruthy(return_desc) THEN ""
  ELSE NL \o get_key_section_header("google", "return", sp)
       \o (IF return_desc.kind = "list"
           THEN Concat([i \in 1..Len(return_desc.items) |->
                          GoogleReturnItem(cfg, sp, return_desc.items[i])])
           ELSE IF return_desc.kind = "str"
           THEN sp \o Indent(cfg)
                \o (IF return_type \notin {None, ""} THEN return_type \o ": " ELSE "")
                \o Strip(WithSpace(cfg, return_desc.text, sp \o Indent(cfg), TRUE)) \o NL
           ELSE "")

\* the return and rtype lines: has_type is bool(return_type), gap the empty
\* line written when there are no params
DefaultReturnLines(cfg, sp, style, return_desc, return_type, has_type, gap) ==
  IF cfg.skip_empty /\ ~ReturnTruthy(return_desc) /\ ~(has_type /\ ~cfg.type_tags)
  THEN ""
  ELSE (IF ReturnTruthy(return_desc)
        THEN gap \o sp \o get_key("return", style) \o OutSep(style)
             \o Strip(WithSpace(cfg, RStrip(return_desc.text), sp, FALSE)) \o NL
        ELSE IF has_type /\ ~cfg.type_tags
        THEN gap \o sp \o get_key("return", style) \o OutSep(style) \o NL
        ELSE "")
       \o (IF cfg.type_tags /\ has_type
           THEN gap \o sp \o get_key("rtype", style) \o OutSep(style)
                \o RStrip(return_type) \o NL
           ELSE "")

\* DefaultStrategy.format_return_section(return_desc, return_type, params)
DefaultReturn(cfg, sp, style, return_desc, return_type, params) ==
  DefaultReturnLines(cfg, sp, style, return_desc, return_type,
                     return_type \notin {None, ""}, IF Len(params) = 0 THEN NL ELSE "")

\* the lines of the raise p = (name, desc)
NumpyRaise(cfg, sp, p) ==
  sp \o p[1] \o NL
  \o sp \o Indent(cfg) \o Strip(WithSpace(cfg, p[2], sp \o Indent(cfg), TRUE)) \o NL

\* NumpydocStrategy.format_raises_section: the text, and whether p[0] + '\n'
\* raised TypeError on a raise without a name
NumpyRaises(cfg, sp, raises) ==
  IF cfg.skip_empty /\ Len(raises) = 0 THEN [raw |-> "", exc |-> FALSE]
  ELSE IF Len(raises) = 0 THEN [raw |-> NL, exc |-> FALSE]
  ELSE IF \E i \in 1..Len(raises) : raises[i][1] = None THEN [raw |-> "", exc |-> TRUE]
  ELSE [raw |-> NL \o get_key_section_header("numpydoc", "raise", sp)
                   \o Concat([i \in 1..Len(raises) |-> NumpyRaise(cfg, sp, raises[i])])
                   \o NL,
        exc |-> FALSE]

GoogleRaise(cfg, sp, p) ==
  sp \o Indent(cfg) \o (IF p[1] # None THEN p[1] \o ": " ELSE "") \o Strip(p[2]) \o NL

\* GoogleStrategy.format_raises_section: 'raise' is a mandatory section there
GoogleRaises(cfg, sp, raises) ==
  IF cfg.skip_empty /\ Len(raises) = 0 THEN ""
  ELSE NL \o get_key_section_header("google", "raise", sp)
          \o Concat([i \in 1..Len(raises) |-> GoogleRaise(cfg, sp, raises[i])]) \o NL

DefaultRaise(cfg, sp, style, p) ==
  sp \o get_key("raise", style) \o " "
  \o (IF p[1] # None THEN p[1] \o OutSep(style) ELSE "")
  \o (IF p[2] # "" THEN Strip(WithSpace(cfg, p[2], sp, FALSE)) ELSE "") \o NL

\* DefaultStrategy.format_raises_section(raises, params, return_desc)
DefaultRaises(cfg, sp, style, raises, params, return_desc) ==
  IF cfg.skip_empty /\ Len(raises) = 0 THEN ""
  ELSE (IF Len(raises) > 0
        THEN (IF Len(params) = 0 /\ ~ReturnTruthy(return_desc) THEN NL ELSE "")
             \o Concat([i \in 1..Len(raises) |-> DefaultRaise(cfg, sp, style, raises[i])])
        ELSE "")
       \o NL

(***************************************************************************)
(* comment_builder/builder.py.  b is the builder after the setters of      *)
(* DocString._create_builder; style is the output style.                   *)
(***************************************************************************)
WithSpaces(cfg, lines) ==
  Join([i \in 1..Len(lines) |-> IF i > 1 THEN cfg.spaces \o lines[i] ELSE lines[i]], NL)

\* CommentBuilder._with_space(text)
with_space(cfg, text) == WithSpaces(cfg, SplitLines(text))

\* CommentBuilder._build_docstring_start()
build_docstring_start(cfg) == cfg.spaces \o cfg.before_lim \o cfg.quotes

\* CommentBuilder._has_sections()
has_sections(b) ==
  \/ Len(b.params) > 0
  \/ ReturnTruthy(b.return_desc)
  \/ b.return_type \notin {None, ""}
  \/ Len(b.raises) > 0

\* the same method if first_line closed the comment on a line of its own for
\* every description, auto-generated or not
build_single_line_docstring_first_line(cfg, b, desc) ==
  LET text == IF desc # "" THEN desc ELSE cfg.trailing_space
      start == build_docstring_start(cfg)
  IN  RStrip(
        IF cfg.description_on_new_line
        THEN start \o NL \o cfg.spaces \o text \o NL \o cfg.spaces \o cfg.quotes
        ELSE IF b.is_auto_generated_name /\ b.deftype = "class"
        THEN start \o " " \o desc \o " " \o cfg.quotes
        ELSE IF cfg.first_line
        THEN start \o text
             \o (IF b.element_name = "__init__" THEN NL \o NL ELSE NL)
             \o cfg.spaces \o cfg.quotes
        ELSE start \o text \o cfg.quotes)

\* CommentBuilder._build_single_line_docstring(desc); _should_use_one_line_format_with_spaces
\* is True for the ClassCommentBuilder only
build_single_line_docstring(cfg, b, desc) ==
  LET text == IF desc # "" THEN desc ELSE cfg.trailing_space
      start == build_docstring_start(cfg)
  IN  RStrip(
        IF cfg.description_on_new_line
        THEN start \o NL \o cfg.spaces \o text \o NL \o cfg.spaces \o cfg.quotes
        ELSE IF b.is_auto_generated_name /\ b.deftype = "class"
        THEN start \o " " \o desc \o " " \o cfg.quotes
        ELSE IF b.is_auto_generated_name /\ cfg.first_line
        THEN start \o text
             \o (IF b.element_name = "__init__" THEN NL \o NL ELSE NL)
             \o cfg.spaces \o cfg.quotes
        ELSE start \o text \o cfg.quotes)

\* the description as the multi-line builders write it
DescriptionBlock(cfg, b) ==
  (IF b.has_existing_description
   THEN RStrip(with_space(cfg, b.description))
   ELSE Strip(with_space(cfg, b.description))) \o NL

\* CommentBuilder._close_docstring(raw)
close_docstring(cfg, raw) ==
  RStrip(IF Count(raw, cfg.quotes) = 1 THEN raw \o cfg.spaces \o cfg.quotes ELSE raw)

\* CommentBuilder._build_multi_line_description_only(desc)
build_multi_line_description_only(cfg, b) ==
  close_docstring(cfg,
    build_docstring_start(cfg)
    \o (IF ~cfg.first_line THEN NL \o cfg.spaces ELSE "")
    \o DescriptionBlock(cfg, b))

\* CommentBuilder._build_additional_sections()
build_additional_sections(cfg, b) ==
  (IF b.post \notin {None, ""}
   THEN cfg.spaces \o Strip(with_space(cfg, b.post)) \o NL ELSE "")
  \o (IF b.doctests # ""
      THEN cfg.spaces \o Strip(with_space(cfg, b.doctests)) \o NL ELSE "")

\* the three sections of the strategy that create_strategy(style) returns
\* (the groups strategy is not modelled: it is no output style of the model)
format_params_section(cfg, sp, style, b) ==
  IF style = "numpydoc" THEN NumpyParams(cfg, sp, b.params)
  ELSE IF style = "google" THEN GoogleParams(cfg, sp, b.params)
  ELSE DefaultParams(cfg, sp, style, b.params)

format_return_section(cfg, sp, style, b) ==
  IF style = "numpydoc" THEN NumpyReturn(cfg, sp, b.return_desc, b.return_type)
  ELSE IF style = "google" THEN GoogleReturn(cfg, sp, b.return_desc, b.return_type)
  ELSE DefaultReturn(cfg, sp, style, b.return_desc, b.return_type, b.params)

format_raises_section(cfg, sp, style, b) ==
  IF style = "numpydoc" THEN NumpyRaises(cfg, sp, b.raises)
  ELSE IF style = "google" THEN [raw |-> GoogleRaises(cfg, sp, b.raises), exc |-> FALSE]
  ELSE [raw |-> DefaultRaises(cfg, sp, style, b.raises, b.params, b.return_desc),
        exc |-> FALSE]

\* ' '.join(desc.split()) if desc and desc.count('\n') and not
\* self._has_existing_description
BuildDesc(desc0, b) ==
  IF desc0 # "" /\ Count(desc0, NL) > 0 /\ ~b.has_existing_description
  THEN Join(SplitWords(desc0), " ") ELSE desc0

\* build() if it wrote the raises section before the return section
BuildWith_raises_first(cfg, sp, style, b, desc, raises) ==
  IF ~has_sections(b)
  THEN [raw |-> IF desc = "" \/ Count(desc, NL) = 0
                THEN build_single_line_docstring(cfg, b, desc)
                ELSE build_multi_line_description_only(cfg, b),
        exc |-> FALSE]
  ELSE IF raises.exc THEN [raw |-> "", exc |-> TRUE]
  ELSE [raw |-> close_docstring(cfg,
                  build_docstring_start(cfg) \o NL \o cfg.spaces
                  \o DescriptionBlock(cfg, b)
                  \o format_params_section(cfg, sp, style, b)
                  \o raises.raw
                  \o format_return_section(cfg, sp, style, b)
                  \o build_additional_sections(cfg, b)),
        exc |-> FALSE]

\* build() with the description desc and the raises section raises
BuildWith(cfg, sp, style, b, desc, raises) ==
  IF ~has_sections(b)
  THEN [raw |-> IF desc = "" \/ Count(desc, NL) = 0
                THEN build_single_line_docstring(cfg, b, desc)
                ELSE build_multi_line_description_only(cfg, b),
        exc |-> FALSE]
  ELSE IF raises.exc THEN [raw |-> "", exc |-> TRUE]
  ELSE [raw |-> close_docstring(cfg,
                  build_docstring_start(cfg) \o NL \o cfg.spaces
                  \o DescriptionBlock(cfg, b)
                  \o format_params_section(cfg, sp, style, b)
                  \o format_return_section(cfg, sp, style, b)
                  \o raises.raw
                  \o build_additional_sections(cfg, b)),
        exc |-> FALSE]

\* CommentBuilder.build(): the docstring, and whether the strategy raised
build(cfg, sp, style, b) ==
  BuildWith(cfg, sp, style, b, BuildDesc(Strip(b.description), b),
            format_raises_section(cfg, sp, style, b))

(***************************************************************************)
(* The objects: DocsTools (dst), CommentBuilderConfig, DocString           *)
(***************************************************************************)
\* DocsTools.params is None until set_known_parameters
NoKnownParams == [known |-> FALSE, names |-> << >>]

\* DocsTools(): style_in='javadoc', style_out='reST', params=None
DocsTools == [style |-> [in |-> "javadoc", out |-> "reST"], params |-> NoKnownParams]

\* CommentBuilderConfig(dst=DocsTools(), output_style=output_style), with __post_init__
CommentBuilderConfig(output_style) ==
  [dst |-> [DocsTools EXCEPT !.style.out = output_style],
   spaces |-> "", quotes |-> "\"\"\"", before_lim |-> "", num_of_spaces |-> 4,
   skip_empty |-> FALSE, first_line |-> FALSE, trailing_space |-> "",
   description_on_new_line |-> FALSE, show_default_value |-> TRUE,
   indent_empty_lines |-> TRUE, type_tags |-> TRUE, output_style |-> output_style]

UnquoteEnd(r1) ==
  IF EndsWith(r1, "\"\"\"") \/ EndsWith(r1, "'''") THEN SliceTo(r1, -3) ELSE r1

UnquoteStart(raw) ==
  UnquoteEnd(IF StartsWith(raw, "\"\"\"") \/ StartsWith(raw, "'''")
             THEN SliceFrom(raw, 3) ELSE raw)

\* raw.strip() without its leading and trailing triple quotes
Unquote(raw0) == UnquoteStart(Strip(raw0))

\* docs['out']['spaces'] for the spaces argument of DocString
OutSpaces(spaces) ==
  IF Contains(spaces, "\t") THEN spaces \o "\t"
  ELSE IF Len(spaces) % 4 = 0 \/ spaces = "" THEN spaces \o Times(" ", 4)
  ELSE spaces \o Times(" ", 2)

\* the object as __init__ leaves it, style_in being the input style and pd
\* what parse_definition returned
NewDocString(comment_config, spaces, docs_raw, style_in, pd) ==
  [ds |-> [element |-> pd.elem,
           before_lim |-> "",
           docs |-> [in |-> [raw |-> IF docs_raw \notin {None, ""}
                                     THEN Unquote(docs_raw) ELSE docs_raw,
                             doctests |-> "", desc |-> None, params |-> << >>,
                             return |-> NoReturn, rtype |-> None, raises |-> << >>],
                     out |-> [raw |-> "", desc |-> None, params |-> << >>,
                              return |-> NoReturn, rtype |-> None, raises |-> << >>,
                              spaces |-> OutSpaces(spaces), post |-> Absent,
                              doctests |-> ""]],
           parsed_elem |-> ~pd.exc, parsed_docs |-> FALSE, generated_docs |-> FALSE],
   comment_config |-> [comment_config EXCEPT !.dst.style.in = style_in],
   exc |-> pd.exc]

\* DocString.__init__(elem_raw, comment_config, case_config, spaces, docs_raw,
\* input_style): the object, the comment_config afterwards, and whether
\* parse_definition raised
DocString(comment_config, case_config, spaces, docs_raw, input_style) ==
  NewDocString(comment_config, spaces, docs_raw,
               IF docs_raw \notin {None, ""} /\ input_style \in {None, ""}
               THEN autodetect_style(docs_raw)
               ELSE IF input_style \notin {None, ""} THEN input_style
               ELSE comment_config.dst.style.in,
               parse_definition(case_config))

\* the same statements if parse_docs did not set its flag
ParsedDocs_flag_unset(d1, cc2, style, raw, sp, ps, rt) ==
  IF ps.exc THEN [ds |-> d1, comment_config |-> cc2, exc |-> TRUE]
  ELSE [ds |-> [d1 EXCEPT !.docs.in.params = @ \o ps.params,
                          !.docs.in.return = rt[1],
                          !.docs.in.rtype = rt[2],
                          !.docs.in.raises = @ \o extract_docs_raises(style, raw, sp),
                          !.docs.in.desc = extract_current_desc(style, raw, sp)],
        comment_config |-> cc2, exc |-> FALSE]

\* the statements of parse_docs from _extract_docs_params on: d1 is the
\* object after _extract_docs_doctest, ps what _extract_docs_params appends
\* and rt what _extract_docs_return sets
ParsedDocs(d1, cc2, style, raw, sp, ps, rt) ==
  IF ps.exc THEN [ds |-> d1, comment_config |-> cc2, exc |-> TRUE]
  ELSE [ds |-> [d1 EXCEPT !.docs.in.params = @ \o ps.params,
                          !.docs.in.return = rt[1],
                          !.docs.in.rtype = rt[2],
                          !.docs.in.raises = @ \o extract_docs_raises(style, raw, sp),
                          !.docs.in.desc = extract_current_desc(style, raw, sp),
                          !.parsed_docs = TRUE],
        comment_config |-> cc2, exc |-> FALSE]

\* dt is what _extract_docs_doctest leaves
ParseDocsOf(ds, cc2, before_lim, style, sp, dt) ==
  ParsedDocs([ds EXCEPT !.before_lim = before_lim,
                        !.docs.in.raw = dt.raw,
                        !.docs.in.doctests = dt.in_doctests,
                        !.docs.out.doctests = dt.out_doctests],
             cc2, style, dt.raw, sp,
             extract_docs_params(style, dt.raw, sp),
             extract_docs_return(style, dt.raw, sp, ds.docs.in.return, ds.docs.in.rtype))

\* cc1 is the comment_config after the input style is set
ParseDocsIn(ds, cc1, before_lim, in_raw, style, sp) ==
  IF in_raw = None
  THEN [ds |-> [ds EXCEPT !.before_lim = before_lim], comment_config |-> cc1,
        exc |-> FALSE]
  ELSE ParseDocsOf(ds,
                   [cc1 EXCEPT !.dst.params = [known |-> TRUE, names |-> ds.element.params]],
                   before_lim, style, sp,
                   extract_docs_doctest(in_raw, ds.docs.in.doctests,
                                        ds.docs.out.doctests, sp))

ParseDocsStyle(ds, comment_config, before_lim, in_raw, style) ==
  ParseDocsIn(ds, [comment_config EXCEPT !.dst.style.in = style], before_lim, in_raw,
              style, ds.docs.out.spaces)

ParseDocsRaw(ds, comment_config, raw, before_lim, in_raw) ==
  ParseDocsStyle(ds, comment_config, before_lim, in_raw,
                 IF raw # None THEN autodetect_style(in_raw)
                 ELSE comment_config.dst.style.in)

\* DocString.parse_docs(raw, before_lim): the object and the comment_config
\* afterwards, and whether extract_elements raised KeyError (the statements
\* after _extract_docs_params are then not executed)
parse_docs(ds, comment_config, raw, before_lim) ==
  ParseDocsRaw(ds, comment_config, raw, before_lim,
               IF raw # None THEN Unquote(raw) ELSE ds.docs.in.raw)

(***************************************************************************)
(* comment_builder/function.py                                             *)
(***************************************************************************)
RECURSIVE CamelSpaced(_, _)
\* the words of part from index i on, joined by spaces: a new word starts at
\* each upper-case letter that is not the first character
CamelSpaced(part, i) ==
  IF i >= Len(part) THEN ""
  ELSE (IF At(part, i) \in UpperSet /\ i > 0 THEN " " ELSE "") \o At(part, i)
       \o CamelSpaced(part, i + 1)

RECURSIVE NameWords(_)
\* ' '.join(words), the words of the parts that are not empty
NameWords(parts) ==
  IF Len(parts) = 0 THEN << >>
  ELSE (IF parts[1] = "" THEN << >> ELSE << CamelSpaced(parts[1], 0) >>)
       \o NameWords(Tail(parts))

\* result[0].upper() + result[1:].lower() if len(result) > 1 else result.upper()
Capitalized(result) ==
  IF Len(result) > 1 THEN Upper(At(result, 0)) \o Lower(SliceFrom(result, 1))
  ELSE Upper(result)

\* the description of a name that is not a special method
WordsDescription(name, words) ==
  IF Len(words) = 0 THEN name ELSE Capitalized(Join(words, " "))

\* the description of the special method __inner__
SpecialDescription(name, inner) ==
  IF inner = "" THEN name
  ELSE IF inner = "init" THEN "Initialize"
  ELSE Upper(At(inner, 0)) \o Lower(SliceFrom(inner, 1))

\* FunctionCommentBuilder._format_name_as_description(name)
format_name_as_description(name) ==
  IF name = "" THEN ""
  ELSE IF StartsWith(name, "__") /\ EndsWith(name, "__")
  THEN SpecialDescription(name, Slice(name, 2, -2))
  ELSE WordsDescription(name, NameWords(SplitAll(name, "_")))

\* FunctionCommentBuilder.set_name(name): the description it sets, which
\* set_description() then replaces (_create_builder calls it next)
set_name(name) == IF name # "" THEN format_name_as_description(name) ELSE ""

\* the builder that DocString._create_builder() returns
create_builder(ds) ==
  [description |-> Strip(ds.docs.out.desc),
   has_existing_description |-> ds.docs.in.desc # None /\ Strip(ds.docs.in.desc) # "",
   params |-> ds.docs.out.params,
   return_desc |-> ds.docs.out.return,
   return_type |-> ds.docs.out.rtype,
   raises |-> ds.docs.out.raises,
   post |-> ds.docs.out.post,
   doctests |-> ds.docs.out.doctests,
   element_name |-> ds.docs.in.raw,
   is_auto_generated_name |-> FALSE,
   deftype |-> ds.element.deftype]

\* the object after the _set_* calls of generate_docs, rr being what
\* __extract_return returns
MergedDocs(ds, comment_config, rr) ==
  [ds EXCEPT !.docs.out.desc = extract_desc(ds.docs.in.desc),
             !.docs.out.params = @ \o extract_params(ds.element.params,
                                                     ds.docs.in.params),
             !.docs.out.rtype = rr[1],
             !.docs.out.return = rr[2],
             !.docs.out.raises = set_raises(ds.docs.in.raises, @),
             !.docs.out.post = extract_other(comment_config.dst.style.in,
                                             ds.docs.in.raw, @)]

\* the object after _set_raw, r being what build() returns
GeneratedDocs(d1, r) ==
  IF r.exc THEN [ds |-> d1, exc |-> TRUE]
  ELSE [ds |-> [d1 EXCEPT !.docs.out.raw = r.raw, !.generated_docs = TRUE],
        exc |-> FALSE]

GenerateFrom(comment_config, d1) ==
  GeneratedDocs(d1, build(comment_config, d1.element.spaces,
                          comment_config.dst.style.out, create_builder(d1)))

\* DocString.generate_docs(): the object afterwards, and whether build() raised
generate_docs(ds, comment_config) ==
  GenerateFrom(comment_config,
               MergedDocs(ds, comment_config,
                          extract_return(comment_config.dst.style.out, ds.docs.in.return,
                                         ds.docs.in.rtype, ds.docs.out.rtype,
                                         ds.element.rtype)))

RawDocsOf(g) == [ds |-> g.ds, exc |-> g.exc, text |-> g.ds.docs.out.raw]

\* DocString.get_raw_docs(): the object afterwards, the text returned, the exception flag
get_raw_docs(ds, comment_config) ==
  RawDocsOf(IF ds.generated_docs THEN [ds |-> ds, exc |-> FALSE]
            ELSE generate_docs(ds, comment_config))

(***************************************************************************)
(* The elements of a run and their source text                             *)
(***************************************************************************)
\* the output dialects that have a rendering strategy of their own
OutputStyles == {"javadoc", "reST", "google", "numpydoc"}

\* the DocString instances of a run
Elems == {"A", "B"}

\* signatures of the processed elements, with the parameter names and
\* annotations that Python gives them ("" when there is no annotation)
Sigs ==
  << [raw |-> "def f(x, y):", names |-> <<"x", "y">>, types |-> <<"", "">>],
     [raw |-> "def g(self, x: int = 5, y='a') -> str:",
      names |-> <<"x", "y">>, types |-> <<"int", "">>],
     [raw |-> "def h():", names |-> << >>, types |-> << >>],
     [raw |-> "def greet(name, greeting=\"hi\"):",
      names |-> <<"name", "greeting">>, types |-> <<"", "">>],
     [raw |-> "def oneline(self):", names |-> << >>, types |-> << >>],
     [raw |-> "class Foo(Base):", names |-> << >>, types |-> << >>] >>

\* the elements found in the processed files: a signature and its comment
\* (None when the element has no comment)
Cases ==
  << [sig |-> 1, doc |-> "Do it.\n\n@param x: the x\n@type x: str\n@param z: gone\n@return: the r\n@raise KeyError: bad key\n"],
     [sig |-> 1, doc |-> "Do it.\n\nParameters\n----------\nx : str\n    the x\n\nSee Also\n--------\nother\n"],
     [sig |-> 2, doc |-> "Do it.\n\n@param x: the x\n@type x: str\n@param z: gone\n@return: the r\n@raise KeyError: bad key\n"],
     [sig |-> 1, doc |-> "Do it.\n\n@param x: the x\n@return: return value\n"],
     [sig |-> 1, doc |-> "Do it.\n\n@param x\nnot a tag\n"],
     [sig |-> 2, doc |-> "Do it.\n\n>>> g(1)\n1\n"],
     [sig |-> 1, doc |-> None],
     [sig |-> 2, doc |-> "Do it.\n\n:param x: the x\n:type x: str\n:returns: the r\n:raises KeyError: bad key\n"],
     [sig |-> 1, doc |-> "Do it.\n\nArgs:\n    x (str): the x\n\nReturns:\n    int: the r\n"],
     [sig |-> 3, doc |-> "Do it.\n\n>>> h()\n1\n"],
     [sig |-> 4, doc |-> None],
     [sig |-> 5, doc |-> "the one line docstring\n"],
     [sig |-> 6, doc |-> None] >>

\* how many of the Cases a run draws its elements from
NumCases == 13

\* how many of the Cases two independent elements of one run are drawn from
NumPairCases == 2

\* how many times generate_docs may run on one instance
MaxGenerate == 2

\* the input dialect names a caller pins (None: autodetect)
Pins == {None, "reST"}

\* tests/test_docs.py torest(): the reST transliteration of a javadoc comment
torest(docs) ==
  ReplaceAll(ReplaceAll(ReplaceAll(docs, "@", ":"), ":return", ":returns"),
             ":raise", ":raises")

\* DocString.get_input_style()
get_input_style(cc) == cc.dst.style.in

VARIABLES
  comment_config,  \* the CommentBuilderConfig every DocString of the run shares
  ds,              \* the DocString instances, by element
  input,           \* what each instance was made from
  pc,              \* where each instance is in its life
  raw_writes,      \* how many times docs['out']['raw'] was assigned, by element
  returned,        \* the texts get_raw_docs() has returned, by element
  last,            \* the call that led to this state
  call             \* a method called on its own: its arguments and what it did

\* no method has been called on its own
NoCall == [op |-> ""]

vars == <<comment_config, ds, input, pc, raw_writes, returned, last, call>>

Init ==
  /\ \E o \in OutputStyles : comment_config = CommentBuilderConfig(o)
  /\ ds = << >>
  /\ input = << >>
  /\ pc = [e \in Elems |-> "none"]
  /\ raw_writes = [e \in Elems |-> 0]
  /\ returned = [e \in Elems |-> {}]
  /\ last = [op |-> "", elem |-> ""]
  /\ call = NoCall

\* PyComment._parse: the DocString of an element is created, with its comment
\* (how = "ctor") or without it (how = "parse": the comment goes to parse_docs)
Create(e, c, doc, pin, how, origin, of) ==
  LET r == DocString(comment_config, CaseConfig("    ", Sigs[Cases[c].sig].raw), "",
                     IF how = "ctor" THEN doc ELSE None, pin)
  IN  /\ pc[e] = "none"
      /\ ds' = (e :> r.ds) @@ ds
      /\ comment_config' = r.comment_config
      /\ input' = (e :> [case |-> c, doc |-> doc, pin |-> pin, how |-> how,
                        origin |-> origin, of |-> of]) @@ input
      /\ pc' = [pc EXCEPT ![e] = IF r.exc THEN "failed" ELSE "constructed"]
      /\ last' = [op |-> "DocString", elem |-> e]
      /\ UNCHANGED <<raw_writes, returned, call>>

\* an element of the processed file
Construct(e, c, pin, how) ==
  /\ c \in 1..Min(NumCases, Len(Cases))
  /\ how = "parse" => Cases[c].doc # None
  /\ Create(e, c, Cases[c].doc, pin, how, "source", "")

\* the element of src again, with the comment that was rendered for src, read
\* as the output dialect
Reprocess(e, src) ==
  /\ e # src
  /\ pc[src] = "extracted"
  /\ ds[src].generated_docs
  /\ Create(e, input[src].case, ds[src].docs.out.raw, comment_config.dst.style.out,
            "ctor", "rendered", src)

\* the element of src again, with the reST transliteration of its javadoc comment
Transliterate(e, src) ==
  /\ e # src
  /\ pc[src] = "extracted"
  /\ ds[src].generated_docs
  /\ input[src].origin = "source"
  /\ input[src].doc # None
  /\ autodetect_style(Unquote(input[src].doc)) = "javadoc"
  /\ Create(e, input[src].case, torest(input[src].doc), input[src].pin,
            input[src].how, "transliterated", src)

\* DocString.parse_docs(raw), raw being the comment unless the constructor got it
ParseDocs(e) ==
  /\ pc[e] = "constructed"
  /\ LET r == parse_docs(ds[e], comment_config,
                         IF input[e].how = "parse" THEN input[e].doc ELSE None, "")
     IN  /\ ds' = [ds EXCEPT ![e] = r.ds]
         /\ comment_config' = r.comment_config
         /\ pc' = [pc EXCEPT ![e] = IF r.exc THEN "failed" ELSE "extracted"]
  /\ last' = [op |-> "parse_docs", elem |-> e]
  /\ UNCHANGED <<input, raw_writes, returned, call>>

\* DocString.generate_docs()
GenerateDocs(e) ==
  /\ pc[e] = "extracted"
  /\ raw_writes[e] < MaxGenerate
  /\ LET r == generate_docs(ds[e], comment_config)
     IN  /\ ds' = [ds EXCEPT ![e] = r.ds]
         /\ pc' = [pc EXCEPT ![e] = IF r.exc THEN "failed" ELSE "extracted"]
         /\ raw_writes' = [raw_writes EXCEPT ![e] = IF r.exc THEN @ ELSE @ + 1]
  /\ last' = [op |-> "generate_docs", elem |-> e]
  /\ UNCHANGED <<comment_config, input, returned, call>>

\* DocString.get_raw_docs()
GetRawDocs(e) ==
  /\ pc[e] = "extracted"
  /\ LET r == get_raw_docs(ds[e], comment_config)
     IN  /\ ds' = [ds EXCEPT ![e] = r.ds]
         /\ pc' = [pc EXCEPT ![e] = IF r.exc THEN "failed" ELSE "extracted"]
         /\ raw_writes' = [raw_writes EXCEPT ![e] =
                             IF r.exc \/ ds[e].generated_docs THEN @ ELSE @ + 1]
         /\ returned' = [returned EXCEPT ![e] = IF r.exc THEN @ ELSE @ \cup {r.text}]
  /\ last' = [op |-> "get_raw_docs", elem |-> e]
  /\ UNCHANGED <<comment_config, input, call>>

\* one element, made and processed in every way a caller can
Next ==
  \/ \E c \in 1..Len(Cases), pin \in Pins, how \in {"ctor", "parse"} :
       Construct("A", c, pin, how)
  \/ ParseDocs("A")
  \/ GenerateDocs("A")
  \/ GetRawDocs("A")

Spec == Init /\ [][Next]_vars

\* an element is processed once, then processed again from its rendered
\* comment or from the transliteration of its comment
NextSeq ==
  \/ /\ pc["B"] = "none"
     /\ \/ \E c \in 1..Len(Cases), how \in {"ctor", "parse"} : Construct("A", c, None, how)
        \/ ParseDocs("A")
        \/ GenerateDocs("A") /\ raw_writes["A"] = 0
  \/ Reprocess("B", "A")
  \/ Transliterate("B", "A")
  \/ ParseDocs("B")
  \/ GenerateDocs("B") /\ raw_writes["B"] = 0
  \/ GetRawDocs("B")

SpecSeq == Init /\ [][NextSeq]_vars

\* PyComment._parse then proceed() over two elements of one file, with the
\* steps of the two elements in any order
NextPair ==
  \E e \in Elems :
    \/ \E c \in 1..Min(NumPairCases, Len(Cases)) : Construct(e, c, None, "parse")
    \/ ParseDocs(e)
    \/ GenerateDocs(e) /\ raw_writes[e] = 0

SpecPair == Init /\ [][NextPair]_vars

\* the run is configured with any placement of the description
\* (CommentBuilderConfig.first_line, .description_on_new_line)
InitSettings ==
  /\ \E o \in OutputStyles, fl \in BOOLEAN, nl \in BOOLEAN :
       comment_config = [CommentBuilderConfig(o) EXCEPT !.first_line = fl,
                                                        !.description_on_new_line = nl]
  /\ ds = << >>
  /\ input = << >>
  /\ pc = [e \in Elems |-> "none"]
  /\ raw_writes = [e \in Elems |-> 0]
  /\ returned = [e \in Elems |-> {}]
  /\ last = [op |-> "", elem |-> ""]
  /\ call = NoCall

SpecSettings == InitSettings /\ [][Next]_vars

(***************************************************************************)
(* Methods called on their own, and the arguments they are called with     *)
(***************************************************************************)
\* the descriptions, types and default literals of a merged parameter
ParamDescs == {"the x", "the Default x", "DEFAULT: 5", "by default 5", ""}

ParamTypes == {None, "int"}

ParamDefaults == {None, "5", "'a'"}

\* CommentFormatStrategy.format_params_section([p]) of the output dialect,
\* with the show_default_value setting show
FormatParams(show, p) ==
  /\ call = NoCall
  /\ call' = [op |-> "format_params_section", show_default_value |-> show, param |-> p,
              raw |-> format_params_section(
                        [comment_config EXCEPT !.show_default_value = show], "    ",
                        comment_config.dst.style.out, [params |-> << p >>])]
  /\ UNCHANGED <<comment_config, ds, input, pc, raw_writes, returned, last>>

\* the lines that the raw text of a comment is made of
DetectLines ==
  {"Do it.", "@param x: the x", "@return: the r", ":param x: the x", "Parameters",
   "----------", "Returns:", "The Parameters are"}

\* how many lines the raw text of a comment has at most
MaxDetectLines == 3

\* the raw texts
DetectTexts ==
  {Join(lines, NL) : lines \in UNION {[1..n -> DetectLines] : n \in 1..MaxDetectLines}}

\* DocsTools.autodetect_style(data), which also sets style['in']
Autodetect(data) ==
  /\ call = NoCall
  /\ call' = [op |-> "autodetect_style", data |-> data, style |-> autodetect_style(data)]
  /\ comment_config' = [comment_config EXCEPT !.dst.style.in = autodetect_style(data)]
  /\ UNCHANGED <<ds, input, pc, raw_writes, returned, last>>

\* default values of a signature: each is one Python expression
SigValues ==
  {"1", "(1, 2)", "((1, 2), 3)", "')'", "'#'", "{'k': '#'}", "[1, [2], 3]"}

\* annotations of a signature
SigTypes == {"", "int", "Dict[str, int]", "Dict[List[int], str]"}

\* what follows the signature on its line
SigComments == {"", "  # c", "  # see g(x)"}

\* DocString._remove_signature_comment(head + comment), head being the
\* signature and comment what follows it
RemoveSignatureComment(head, comment) ==
  /\ call = NoCall
  /\ call' = [op |-> "_remove_signature_comment", txt |-> head \o comment, head |-> head,
              ret |-> remove_signature_comment(head \o comment)]
  /\ UNCHANGED <<comment_config, ds, input, pc, raw_writes, returned, last>>

\* the source text of the parameter p of a signature
ParamText(p) ==
  p.param \o (IF p.type # "" THEN ": " \o p.type ELSE "")
  \o (IF p.default = "" THEN "" ELSE IF p.type # "" THEN " = " \o p.default
      ELSE "=" \o p.default)

\* the source text of the def statement of f with the parameters params
DefText(params) ==
  "def f(" \o Join([i \in 1..Len(params) |-> ParamText(params[i])], ", ") \o "):"

\* DocString._extract_signature_elements(txt), txt being def f with params
ExtractSignatureElements(params) ==
  /\ call = NoCall
  /\ call' = [op |-> "_extract_signature_elements", txt |-> DefText(params),
              params |-> params, ret |-> extract_signature_elements(DefText(params))]
  /\ UNCHANGED <<comment_config, ds, input, pc, raw_writes, returned, last>>

\* the (name, description, type) entries of an extracted return list
ReturnEntries == {None, "r"} \X {"the r", "other"} \X {None, "int"}

\* how many entries an extracted return list has at most
MaxReturns == 2

\* what docs['in']['return'] can be
InReturns ==
  {NoReturn, StrReturn("the r")}
  \cup {ListReturn(l) : l \in UNION {[1..n -> ReturnEntries] : n \in 0..MaxReturns}}

\* DocString.__extract_return() with in_return in docs['in']['return'] and
\* elem_rtype the return annotation of the signature
ExtractReturn(in_return, elem_rtype) ==
  /\ call = NoCall
  /\ call' = [op |-> "__extract_return", in_return |-> in_return,
              ret |-> extract_return(comment_config.dst.style.out, in_return, None, None,
                                     elem_rtype)]
  /\ UNCHANGED <<comment_config, ds, input, pc, raw_writes, returned, last>>

\* a method is called once, on a fresh instance
NextCalls ==
  \/ \E show \in BOOLEAN, d \in ParamDescs, t \in ParamTypes, v \in ParamDefaults :
       FormatParams(show, << "x", d, t, v >>)
  \/ \E data \in DetectTexts : Autodetect(data)
  \/ \E a \in SigValues, b \in SigValues, c \in SigComments :
       RemoveSignatureComment(DefText(<< [param |-> "a", type |-> "", default |-> a],
                                         [param |-> "b", type |-> "", default |-> b] >>), c)
  \/ \E t \in SigTypes, v \in SigValues \cup {""}, u \in {"", "int"} :
       ExtractSignatureElements(<< [param |-> "a", type |-> t, default |-> v],
                                   [param |-> "b", type |-> u, default |-> ""] >>)
  \/ \E r \in InReturns, t \in {"", "str"} : ExtractReturn(r, t)

SpecCalls == Init /\ [][NextCalls]_vars

\* how many raise entries the text scanned by _extract_tagstyle_docs_raises has
RaiseCounts == {0, 2, maxi, maxi + 2}

\* DocString._extract_tagstyle_docs_raises() is entered on a text with n
\* raise entries: get_raise_indexes finds one (start >= 0) as long as one is left
ScanRaises(n) ==
  /\ call = NoCall
  /\ call' = [op |-> "_extract_tagstyle_docs_raises", at |-> "while", left |-> n,
              i |-> 0, loop |-> TRUE, listed |-> 0, warned |-> FALSE, exc |-> FALSE]
  /\ UNCHANGED <<comment_config, ds, input, pc, raw_writes, returned, last>>

\* one iteration of its while loop
RaisesIteration ==
  /\ call.op = "_extract_tagstyle_docs_raises"
  /\ call.at = "while"
  /\ call.loop
  /\ call' = [call EXCEPT !.i = @ + 1,
                          !.loop = call.i + 1 <= maxi /\ call.left > 0,
                          !.left = IF @ > 0 THEN @ - 1 ELSE @,
                          !.listed = IF call.left > 0 THEN @ + 1 ELSE @]
  /\ UNCHANGED <<comment_config, ds, input, pc, raw_writes, returned, last>>

\* the statements after the loop: the warning is printed and the method returns
RaisesReturn ==
  /\ call.op = "_extract_tagstyle_docs_raises"
  /\ call.at = "while"
  /\ ~call.loop
  /\ call' = [call EXCEPT !.at = "returned", !.warned = call.i > maxi]
  /\ UNCHANGED <<comment_config, ds, input, pc, raw_writes, returned, last>>

NextScan ==
  \/ \E n \in RaiseCounts : ScanRaises(n)
  \/ RaisesIteration
  \/ RaisesReturn

SpecScan == Init /\ [][NextScan]_vars

\* the lines of a javadoc comment that _extra_tagstyle_elements scans
TagLines ==
  {"@param x: the x", "@param y", "@type y: str", "@return: the r",
   "@raise KeyError: bad key", "more text", "  indented"}

\* how many lines the scanned comment has at most
MaxTagLines == 4

\* DocsTools._extra_tagstyle_elements(data) of a javadoc comment, data being
\* the lines joined by newlines
ExtraTagstyleElements(lines) ==
  /\ call = NoCall
  /\ call' = [op |-> "_extra_tagstyle_elements", lines |-> lines,
              ret |-> extra_tagstyle_elements("javadoc", Join(lines, NL)).ret,
              exc |-> extra_tagstyle_elements("javadoc", Join(lines, NL)).exc]
  /\ UNCHANGED <<comment_config, ds, input, pc, raw_writes, returned, last>>

\* the tools of the two dialects that are written in sections
SectionTools == {"numpydoc", "google"}

\* the lines of the content of a section whose header has no indentation
ContentLines == {"x : int", "y", "    the x", "    y : str", "        more", ""}

\* how many lines the content of a section has at most
MaxContentLines == 3

\* NumpydocTools._get_list_key(spaces, lines) or GoogledocTools._get_list_key(spaces,
\* lines), spaces being the leading spaces of the header of the section
GetListKeyOf(tool, spaces, lines) ==
  /\ call = NoCall
  /\ call' = [op |-> "_get_list_key", tool |-> tool, spaces |-> spaces, lines |-> lines,
              ret |-> ToolListKey(tool, spaces, lines)]
  /\ UNCHANGED <<comment_config, ds, input, pc, raw_writes, returned, last>>

\* the header of the parameter section of each tool, with its underline
SectionHeader(tool) ==
  IF tool = "numpydoc" THEN << "Parameters", "----------" >> ELSE << "Args:" >>

\* the lines of the content of the parameter section
SectionLines(tool) ==
  IF tool = "numpydoc" THEN {"x : int", "    the x"} ELSE {"    x: the x", "        more"}

\* how many lines the content of the parameter section has at most
MaxSectionLines == 2

\* what follows the parameter section: nothing, or the section of the return
FollowingSections(tool) ==
  {<< >>,
   IF tool = "numpydoc" THEN << "Returns", "-------", "int" >>
   ELSE << "Returns:", "    int: the r" >>}

\* DocToolsBase.get_list_key(data, 'param') of the tool, data being the header
\* of the parameter section, its content, the lines sep and the section next
GetListKey(tool, content, sep, next) ==
  /\ call = NoCall
  /\ call' = [op |-> "get_list_key", tool |-> tool,
              data |-> SectionHeader(tool) \o content \o sep \o next,
              ret |-> get_list_key(tool, Join(SectionHeader(tool) \o content \o sep
                                              \o next, NL), "param")]
  /\ UNCHANGED <<comment_config, ds, input, pc, raw_writes, returned, last>>

\* a parser of docs_tools.py is called once, on a fresh DocsTools
NextParsers ==
  \/ \E tool \in SectionTools, n \in 1..MaxSectionLines, sep \in {<< >>, << "" >>} :
       \E content \in [1..n -> SectionLines(tool)], next \in FollowingSections(tool) :
         GetListKey(tool, content, sep, next)
  \/ \E n \in 1..MaxTagLines : \E lines \in [1..n -> TagLines] :
       ExtraTagstyleElements(lines)
  \/ \E tool \in SectionTools, n \in 1..MaxContentLines :
       \E lines \in [1..n -> ContentLines] : GetListKeyOf(tool, "", lines)

SpecParsers == Init /\ [][NextParsers]_vars

\* the descriptions a builder is given: one line, none, two lines, and one
\* that holds the quote characters
BuildDescriptions == {"Do it.", "", "Do it.\nMore.", "Say \"\"\"hi\"\"\" to it."}

\* the parameters, the return and the raises a builder is given
BuildParams == {<< >>, << <<"x", "the x", "int", None>> >>}

BuildReturns == {<<NoReturn, None>>, <<StrReturn("the r"), None>>, <<StrReturn("the r"), "int">>}

BuildRaises == {<< >>, << <<"KeyError", "bad key">> >>}

\* the post text and the doctests a builder is given
BuildExtras ==
  {<<"", "">>, <<"See Also\n--------\nother\n", "">>, <<"", ">>> f(1)\n1">>,
   <<"See Also\n--------\nother\n", ">>> f(1)\n1">>}

\* has_existing_description, is_auto_generated_name and the kind of builder
BuildKinds ==
  {<<TRUE, FALSE, "def">>, <<FALSE, FALSE, "def">>, <<FALSE, TRUE, "def">>,
   <<FALSE, TRUE, "class">>}

\* config.spaces and config.before_lim
BuildMargins == {<<"", "">>, <<"  ", "r">>}

\* the configuration of the builder
BuildConfig(m, fl, nl) ==
  [comment_config EXCEPT !.spaces = m[1], !.before_lim = m[2], !.first_line = fl,
                         !.description_on_new_line = nl]

\* the builder after its setters
Builder(d, ps, rt, rs, x, k) ==
  [description |-> d, has_existing_description |-> k[1], params |-> ps,
   return_desc |-> rt[1], return_type |-> rt[2], raises |-> rs, post |-> x[1],
   doctests |-> x[2], element_name |-> "f", is_auto_generated_name |-> k[2],
   deftype |-> k[3]]

\* CommentBuilder.build() of the builder b under the configuration cfg, with
\* the strategy of the output dialect
Build(cfg, b) ==
  /\ call = NoCall
  /\ call' = [op |-> "build", config |-> cfg, builder |-> b,
              raw |-> build(cfg, "    ", comment_config.dst.style.out, b).raw,
              exc |-> build(cfg, "    ", comment_config.dst.style.out, b).exc]
  /\ UNCHANGED <<comment_config, ds, input, pc, raw_writes, returned, last>>

\* a builder is set up and built once
NextBuild ==
  \E d \in BuildDescriptions, ps \in BuildParams, rt \in BuildReturns, rs \in BuildRaises,
     x \in BuildExtras, k \in BuildKinds, m \in BuildMargins, fl \in BOOLEAN,
     nl \in BOOLEAN :
    Build(BuildConfig(m, fl, nl), Builder(d, ps, rt, rs, x, k))

SpecBuild == Init /\ [][NextBuild]_vars

\* the input dialects of the texts the index-scan loops run on
LoopStyles == {"javadoc", "reST"}

MaxLoopLines == 3

\* the texts of up to MaxLoopLines lines out of lines
LoopTexts(lines) ==
  {Join(l, NL) : l \in UNION {[1..n -> lines] : n \in 0..MaxLoopLines}}

RaiseTextLines ==
  {"@raise KeyError: bad key", "@raise E", ":raises E: bad", "more text", "@param x: the x"}

ParamTextLines ==
  {"@param x: the x", "@param y", "@type x: int", ":param z: the z", "more text"}

DoctestTextLines == {">>> f(1)", "    >>> g()", "1", "", "text"}

\* DocString._extract_tagstyle_docs_raises() is entered with the text raw in
\* docs['in']['raw'], up to the while loop
ExtractTagstyleDocsRaises(style, raw) ==
  /\ call = NoCall
  /\ call' = [op |-> "_extract_tagstyle_docs_raises", at |-> "scanning", style |-> style,
              data |-> Dedent(raw, ""), i |-> 0, loop |-> TRUE, listed |-> 0,
              found |-> << >>, warned |-> FALSE]
  /\ UNCHANGED <<comment_config, ds, input, pc, raw_writes, returned, last>>

\* one iteration of the while loop of _extract_tagstyle_docs_raises
RaisesScanIteration ==
  /\ call.op = "_extract_tagstyle_docs_raises"
  /\ call.at = "scanning"
  /\ call.loop
  /\ call' = RaisesScanned(call, get_raise_indexes(call.style, call.data))
  /\ UNCHANGED <<comment_config, ds, input, pc, raw_writes, returned, last>>

\* the statements after the loop
RaisesScanReturn ==
  /\ call.op = "_extract_tagstyle_docs_raises"
  /\ call.at = "scanning"
  /\ ~call.loop
  /\ call' = [call EXCEPT !.at = "returned", !.warned = call.i > maxi]
  /\ UNCHANGED <<comment_config, ds, input, pc, raw_writes, returned, last>>

\* DocString._old_extract_tagstyle_docs_params() is entered with the text raw
\* in docs['in']['raw'], up to the while loop
OldExtractTagstyleDocsParams(style, raw) ==
  /\ call = NoCall
  /\ call' = [op |-> "_old_extract_tagstyle_docs_params", at |-> "scanning",
              style |-> style, data |-> Dedent(raw, ""), i |-> 0, loop |-> TRUE,
              listed |-> 0, found |-> << >>, warned |-> FALSE]
  /\ UNCHANGED <<comment_config, ds, input, pc, raw_writes, returned, last>>

\* one iteration of the while loop of _old_extract_tagstyle_docs_params
OldParamsIteration ==
  /\ call.op = "_old_extract_tagstyle_docs_params"
  /\ call.at = "scanning"
  /\ call.loop
  /\ call' = OldParamsScanned(call, get_param_indexes(call.style, call.data))
  /\ UNCHANGED <<comment_config, ds, input, pc, raw_writes, returned, last>>

\* the statements after the loop
OldParamsReturn ==
  /\ call.op = "_old_extract_tagstyle_docs_params"
  /\ call.at = "scanning"
  /\ ~call.loop
  /\ call' = [call EXCEPT !.at = "returned", !.warned = call.i > maxi]
  /\ UNCHANGED <<comment_config, ds, input, pc, raw_writes, returned, last>>

\* DocString._extract_docs_doctest() is entered with the text raw in
\* docs['in']['raw'] and no doctest extracted before, up to the while loop
ExtractDocsDoctest(raw) ==
  /\ call = NoCall
  /\ call' = [op |-> "_extract_docs_doctest", at |-> "scanning", raw |-> raw,
              doctests |-> "", se |-> get_doctests_indexes(raw), result |-> FALSE,
              out_doctests |-> ""]
  /\ UNCHANGED <<comment_config, ds, input, pc, raw_writes, returned, last>>

\* one iteration of the while loop of _extract_docs_doctest
DoctestIteration ==
  /\ call.op = "_extract_docs_doctest"
  /\ call.at = "scanning"
  /\ call.se[1] # -1
  /\ call' = DoctestTaken(call, SplitLines(call.raw))
  /\ UNCHANGED <<comment_config, ds, input, pc, raw_writes, returned, last>>

\* the statements after the loop
DoctestReturn ==
  /\ call.op = "_extract_docs_doctest"
  /\ call.at = "scanning"
  /\ call.se[1] = -1
  /\ call' = [call EXCEPT !.at = "returned",
                          !.out_doctests = IF call.doctests # ""
                                           THEN Dedent(call.doctests, "") ELSE @]
  /\ UNCHANGED <<comment_config, ds, input, pc, raw_writes, returned, last>>

\* one of the three extraction loops is entered and runs step by step
NextLoops ==
  \/ NextScan
  \/ \E style \in LoopStyles, raw \in LoopTexts(RaiseTextLines) :
       ExtractTagstyleDocsRaises(style, raw)
  \/ RaisesScanIteration
  \/ RaisesScanReturn
  \/ \E style \in LoopStyles, raw \in LoopTexts(ParamTextLines) :
       OldExtractTagstyleDocsParams(style, raw)
  \/ OldParamsIteration
  \/ OldParamsReturn
  \/ \E raw \in LoopTexts(DoctestTextLines) : ExtractDocsDoctest(raw)
  \/ DoctestIteration
  \/ DoctestReturn

\* a step of a loop that was entered
LoopStep ==
  \/ RaisesIteration
  \/ RaisesReturn
  \/ RaisesScanIteration
  \/ RaisesScanReturn
  \/ OldParamsIteration
  \/ OldParamsReturn
  \/ DoctestIteration
  \/ DoctestReturn

\* a method was entered and has not returned: one of the steps is enabled
LoopRunning == call # NoCall /\ call.at # "returned"

\* a loop that was entered keeps running, the interpreter executes the method
\* to its end: this is WF_vars(LoopStep), LoopRunning being ENABLED <<LoopStep>>_vars
LoopFairness == []<>(~LoopRunning) \/ []<><<LoopStep>>_vars

SpecLoops == Init /\ [][NextLoops]_vars /\ LoopFairness

\* how many times parse_docs is called again on one instance
MaxParseAgain == 2

\* DocString.parse_docs() is called again on an instance it was called on, with
\* the comment (with_raw) or without an argument; call keeps docs['in'] as the
\* first call left it
ParseDocsAgain(e, with_raw) ==
  /\ pc[e] = "extracted"
  /\ call # NoCall => call.times < MaxParseAgain
  /\ LET r == parse_docs(ds[e], comment_config,
                         IF with_raw THEN input[e].doc ELSE None, "")
     IN  /\ ds' = [ds EXCEPT ![e] = r.ds]
         /\ comment_config' = r.comment_config
         /\ pc' = [pc EXCEPT ![e] = IF r.exc THEN "failed" ELSE "extracted"]
  /\ call' = [op |-> "parse_docs", elem |-> e, with_raw |-> with_raw,
              times |-> IF call = NoCall THEN 1 ELSE call.times + 1,
              first |-> IF call = NoCall THEN ds[e].docs.in ELSE call.first]
  /\ last' = [op |-> "parse_docs", elem |-> e]
  /\ UNCHANGED <<input, raw_writes, returned>>

\* one element, on which parse_docs is called more than once
NextAgain ==
  \/ \E c \in 1..Len(Cases), pin \in Pins, how \in {"ctor", "parse"} :
       Construct("A", c, pin, how)
  \/ ParseDocs("A")
  \/ \E with_raw \in BOOLEAN : ParseDocsAgain("A", with_raw)
  \/ GenerateDocs("A")
  \/ GetRawDocs("A")

SpecAgain == Init /\ [][NextAgain]_vars

(***************************************************************************)
(* The properties                                                          *)
(***************************************************************************)
\* the instance e was made from the comment rendered for another instance,
\* whose merged model is a description, parameters, a return and raises (no
\* left-over sections, no doctests), and e has rendered its own comment
Rerendered(e) ==
  /\ pc[e] = "extracted"
  /\ input[e].origin = "rendered"
  /\ ds[e].generated_docs
  /\ ds[input[e].of].docs.out.post \in {None, ""}
  /\ ds[input[e].of].docs.out.doctests = ""

\* C1: round-trip stability. The text rendered for an element, read again as
\* a comment in the output dialect against the same signature, merged and
\* rendered a second time, is the text of the first rendering.
C1_RoundTripStable ==
  \A e \in Elems : Rerendered(e) => ds[e].docs.out.raw = input[e].doc

\* C1: the google rendering of a return description without a type
\* ('Returns:' then 'the r') comes back as ': the r'
C1_GoogleReturnDiffers ==
  /\ Rerendered("B")
  /\ comment_config.dst.style.out = "google"
  /\ input["B"].case = 1
  /\ Contains(input["B"].doc, "Returns:\n        the r\n")
  /\ Contains(ds["B"].docs.out.raw, "Returns:\n        : the r\n")

\* the instance e has extracted its comment and merged it at least once
Merged(e) == pc[e] = "extracted" /\ ds[e].generated_docs

\* the signature that the instance e was made for
SigOf(e) == Sigs[Cases[input[e].case].sig]

\* the names of a list of (name, description, type, ...) entries, in order
NamesOf(params) == [i \in 1..Len(params) |-> params[i][1]]

\* C2: signature parameter fidelity. After the merge the names of the out
\* parameter list are the parameter names of the signature without self and
\* cls, each once and in the order of the signature: a parameter that only
\* the comment has is absent, and a parameter that the comment does not have
\* has an empty description.
C2_SignatureFidelity ==
  \A e \in Elems :
    Merged(e) =>
      LET out == ds[e].docs.out.params
          doc == NamesOf(ds[e].docs.in.params)
      IN  /\ NamesOf(out) = SigOf(e).names
          /\ \A i \in 1..Len(out) :
               (\A j \in 1..Len(doc) : doc[j] # out[i][1]) => out[i][2] = ""

\* C2: the same after exactly one merge, which is where it holds
C2_FidelityOfFirstMerge ==
  \A e \in Elems :
    (Merged(e) /\ raw_writes[e] = 1) =>
      LET out == ds[e].docs.out.params
          doc == NamesOf(ds[e].docs.in.params)
      IN  /\ NamesOf(out) = SigOf(e).names
          /\ \A i \in 1..Len(out) :
               (\A j \in 1..Len(doc) : doc[j] # out[i][1]) => out[i][2] = ""

\* C2: a second generate_docs has listed the parameters of def f(x, y) twice
C2_ParametersTwice ==
  /\ Merged("A")
  /\ raw_writes["A"] = 2
  /\ SigOf("A").names = <<"x", "y">>
  /\ NamesOf(ds["A"].docs.out.params) = <<"x", "y", "x", "y">>

\* C2: one merge of the comment with @param x and @param z into def f(x, y)
C2_CommentOnlyDropped ==
  /\ Merged("A")
  /\ raw_writes["A"] = 1
  /\ NamesOf(ds["A"].docs.in.params) = <<"x", "z">>
  /\ NamesOf(ds["A"].docs.out.params) = <<"x", "y">>

\* None for a type that is None or empty
TypeOrNone(t) == IF t \in {None, ""} THEN None ELSE t

\* the type that the comment of the instance e declares for name (None: none)
CommentType(e, name) ==
  LET ps == ds[e].docs.in.params
      ks == {k \in 1..Len(ps) : ps[k][1] = name}
  IN  IF ks = {} THEN None
      ELSE TypeOrNone(ps[CHOOSE k \in ks : \A j \in ks : j <= k][3])

\* C4: type priority. The out type of a signature parameter is the type the
\* signature declares when it declares one (type-hint priority is on by
\* default), else the type the comment declares, else absent.
C4_TypePriority ==
  \A e \in Elems :
    Merged(e) =>
      LET out == ds[e].docs.out.params
          sig == SigOf(e)
      IN  \A i \in 1..Len(out) :
            \A k \in 1..Len(sig.names) :
              sig.names[k] = out[i][1] =>
                TypeOrNone(out[i][3]) = IF sig.types[k] # "" THEN sig.types[k]
                                        ELSE CommentType(e, out[i][1])

\* C4: def g(self, x: int = 5, ...) with '@type x: str' in the comment has
\* merged x as int, and def f(x, y) with the same comment has merged x as str
C4_SignatureTypeWins ==
  /\ Merged("A")
  /\ SigOf("A").types = <<"int", "">>
  /\ CommentType("A", "x") = "str"
  /\ ds["A"].docs.out.params[1] = <<"x", "the x", "int", "5">>

\* C5: cross-dialect equivalence. A javadoc comment and its reST
\* transliteration give the same description, parameters and raises when
\* parsed, and the same rendered comment for the same signature.
C5_TransliterationEquivalent ==
  \A e \in Elems :
    (pc[e] = "extracted" /\ input[e].origin = "transliterated") =>
      LET j == ds[input[e].of]
          r == ds[e]
      IN  /\ r.docs.in.desc = j.docs.in.desc
          /\ r.docs.in.params = j.docs.in.params
          /\ r.docs.in.raises = j.docs.in.raises
          /\ r.generated_docs => r.docs.out.raw = j.docs.out.raw

\* C5: '@return: return value' and ':returns: return value' are rendered
\* with different return descriptions
C5_ReturnTextDiffers ==
  /\ Merged("B")
  /\ input["B"].origin = "transliterated"
  /\ input["A"].doc = "Do it.\n\n@param x: the x\n@return: return value\n"
  /\ ds["A"].docs.out.return = StrReturn("return: return value")
  /\ ds["B"].docs.out.return = StrReturn("returns: return value")
  /\ ds["B"].docs.out.raw # ds["A"].docs.out.raw

\* C6: malformed documentation is never fatal. parse_docs and generate_docs
\* complete for every comment: no call on an instance raises.
C6_NeverFatal == \A e \in Elems : pc[e] # "failed"

\* C6: parse_docs has raised on '@param x' (no ':') followed by a line that
\* is not a tag
C6_ParseRaised ==
  /\ pc["A"] = "failed"
  /\ last = [op |-> "parse_docs", elem |-> "A"]
  /\ input["A"].doc = "Do it.\n\n@param x\nnot a tag\n"

\* C7: one-shot rendering. Over the generate_docs and get_raw_docs calls on
\* an instance docs['out']['raw'] is written once, it is the rendering of the
\* other out fields as they are (it is written after them), and get_raw_docs
\* returns the same text every time.
C7_OneShot ==
  \A e \in Elems :
    /\ raw_writes[e] <= 1
    /\ Cardinality(returned[e]) <= 1
    /\ Merged(e) =>
         ds[e].docs.out.raw = build(comment_config, ds[e].element.spaces,
                                    comment_config.dst.style.out,
                                    create_builder(ds[e])).raw

\* C7: docs['out']['raw'] was written twice and get_raw_docs has returned two
\* texts
C7_WrittenTwice ==
  /\ raw_writes["A"] = 2
  /\ Cardinality(returned["A"]) = 2

\* the content fields of docs['out']
OutContent(d) ==
  [desc |-> d.docs.out.desc, params |-> d.docs.out.params,
   return |-> d.docs.out.return, rtype |-> d.docs.out.rtype,
   raises |-> d.docs.out.raises, post |-> d.docs.out.post,
   doctests |-> d.docs.out.doctests]

\* C8: phase ordering. No content field of docs['out'] of an instance changes
\* in a step other than a merge (generate_docs, or the get_raw_docs that
\* calls it) of that instance after its extraction: parse_docs writes none.
C8_OutWrittenByMergeOnly ==
  [][\A e \in DOMAIN ds :
       OutContent(ds'[e]) # OutContent(ds[e]) =>
         /\ last'.elem = e
         /\ last'.op \in {"generate_docs", "get_raw_docs"}
         /\ pc[e] = "extracted"]_vars

\* C8: parse_docs has left the doctest of the comment in docs['out']
C8_ParseWroteDoctests ==
  /\ last = [op |-> "parse_docs", elem |-> "A"]
  /\ ~ds["A"].generated_docs
  /\ ds["A"].docs.out.doctests = ">>> g(1)\n1"

\* C9: Configuration is read-only. No step changes a field of the shared
\* configuration, its dialect tools (input and output dialect, known
\* parameters) included.
C9_ConfigurationReadOnly == [][comment_config' = comment_config]_vars

\* C9: the input dialect and the known parameters of the shared dialect
\* tools are not the ones the configuration was made with
C9_ConfigurationChanged ==
  /\ last.op = "parse_docs"
  /\ comment_config.dst.style.in # DocsTools.style.in
  /\ comment_config.dst.params # DocsTools.params

\* C10: pinned input dialect. When the caller names the input dialect, the
\* dialect in use after the constructor and after parse_docs is that one,
\* whether the comment went to the constructor or to parse_docs.
C10_PinHonoured ==
  \A e \in Elems :
    (last.elem = e /\ last.op \in {"DocString", "parse_docs"} /\ input[e].pin # None)
      => get_input_style(comment_config) = input[e].pin

\* C10: parse_docs(raw) on an instance pinned to reST has autodetected javadoc
C10_PinOverridden ==
  /\ last = [op |-> "parse_docs", elem |-> "A"]
  /\ input["A"].pin = "reST"
  /\ input["A"].how = "parse"
  /\ get_input_style(comment_config) = "javadoc"

\* C10: the comment went to the constructor of an instance pinned to reST
C10_PinAtConstruction ==
  /\ last = [op |-> "DocString", elem |-> "A"]
  /\ input["A"].pin = "reST"
  /\ input["A"].how = "ctor"
  /\ input["A"].doc # None
  /\ autodetect_style(Unquote(input["A"].doc)) # "reST"
  /\ get_input_style(comment_config) = "reST"

\* what the instance e renders when it is the only one of its run
Alone(e) ==
  LET i  == input[e]
      c0 == CommentBuilderConfig(comment_config.dst.style.out)
      d  == DocString(c0, CaseConfig("    ", SigOf(e).raw), "",
                      IF i.how = "ctor" THEN i.doc ELSE None, i.pin)
      p  == parse_docs(d.ds, d.comment_config,
                       IF i.how = "parse" THEN i.doc ELSE None, "")
      g  == generate_docs(p.ds, p.comment_config)
  IN  [style |-> get_input_style(p.comment_config), out |-> g.ds.docs.out]

\* C3: element independence. With one Configuration for two elements, what an
\* element renders (its raises and left-over sections included) and the input
\* dialect it reports are what they are when the element is processed alone,
\* in every order of the parse and generate steps of the two.
C3_ElementsIndependent ==
  \A e \in Elems :
    pc[e] = "extracted" =>
      /\ get_input_style(comment_config) = Alone(e).style
      /\ ds[e].generated_docs => ds[e].docs.out = Alone(e).out

\* C3: the numpydoc comment of A was parsed, then the javadoc comment of B,
\* and A has rendered without its 'See Also' section
C3_LeftOverLost ==
  /\ Merged("A")
  /\ pc["B"] = "extracted"
  /\ input["A"].case = 2
  /\ input["B"].case = 1
  /\ Alone("A").out.post = "See Also\n--------\nother\n"
  /\ ds["A"].docs.out.post = None
  /\ ds["A"].docs.out.raw # Alone("A").out.raw

\* the lines of the first doctest block of the comment text data
DoctestBlock(data) ==
  Join(ListSlice(SplitLines(data), get_doctests_indexes(data)[1],
                 get_doctests_indexes(data)[2] + 1), NL)

\* the comment of the instance e comes from the source and has a doctest
HasDoctest(e) ==
  /\ input[e].origin = "source"
  /\ input[e].doc # None
  /\ get_doctests_indexes(Unquote(input[e].doc))[1] # -1

\* C15: doctest preservation. The doctest block of the original comment is
\* not in the text the other extractions read, and it is in the rendered
\* comment as it was written, for every output dialect and every element,
\* with or without parameter, return and raises sections.
C15_DoctestPreserved ==
  \A e \in Elems :
    (Merged(e) /\ HasDoctest(e)) =>
      /\ ~Contains(ds[e].docs.in.raw, ">>>")
      /\ Contains(ds[e].docs.out.raw, DoctestBlock(Unquote(input[e].doc)))

\* C15: def h() has no parameter, return or raises, and its comment is
\* rendered without the doctest that parse_docs took out of it
C15_DoctestDropped ==
  /\ Merged("A")
  /\ SigOf("A").raw = "def h():"
  /\ HasDoctest("A")
  /\ ds["A"].docs.out.doctests = ">>> h()\n1"
  /\ ds["A"].docs.out.raw = "\"\"\"Do it.\"\"\""

\* C15: def g(self, x: int = 5, y='a') has parameters, and its comment is
\* rendered with the doctest
C15_DoctestKept ==
  /\ Merged("A")
  /\ SigOf("A").raw = "def g(self, x: int = 5, y='a') -> str:"
  /\ HasDoctest("A")
  /\ Contains(ds["A"].docs.out.raw, "\n>>> g(1)\n1\n")

\* some line of text is line, leading and trailing white space apart
HasLine(text, line) ==
  \E i \in 1..Len(SplitLines(text)) : Strip(SplitLines(text)[i]) = line

\* C16: auto-generated comment. An element without a comment is rendered
\* with the description derived from its name, and def greet(name,
\* greeting="hi") rendered in reST has the description line 'Greet' and the
\* lines ':param name:' and ':param greeting: (Default value = "hi")'.
C16_AutoGenerated ==
  \A e \in Elems :
    (Merged(e) /\ input[e].doc = None) =>
      /\ HasLine(ds[e].docs.out.raw, set_name(ds[e].element.name))
      /\ (ds[e].element.name = "greet" /\ comment_config.dst.style.out = "reST") =>
           /\ HasLine(ds[e].docs.out.raw, "Greet")
           /\ HasLine(ds[e].docs.out.raw, ":param name:")
           /\ HasLine(ds[e].docs.out.raw, ":param greeting: (Default value = \"hi\")")

\* C16: def greet(name, greeting="hi") without a comment is rendered in reST
\* with the two parameter lines and an empty description
C16_NoDescription ==
  /\ Merged("A")
  /\ input["A"].doc = None
  /\ ds["A"].element.name = "greet"
  /\ set_name(ds["A"].element.name) = "Greet"
  /\ comment_config.dst.style.out = "reST"
  /\ ds["A"].docs.out.raw =
       "\"\"\"\n\n\n    :param name: \n    :param greeting: (Default value = \"hi\")\n\n\"\"\""


\* C11: default-value echo guard. In every renderer a parameter whose
\* description has the word 'default', in any letter case, is rendered
\* without a '(Default value = ...)' suffix, whatever show_default_value and
\* the default literal of the parameter are.
C11_DefaultNotEchoed ==
  (call.op = "format_params_section" /\ Contains(Lower(call.param[2]), "default"))
    => ~Contains(call.raw, "(Default value = ")

\* C11: the numpydoc rendering of x = 5, described as 'the Default x', with
\* show_default_value on
C11_GuardedParameter ==
  /\ call.op = "format_params_section"
  /\ comment_config.dst.style.out = "numpydoc"
  /\ call.show_default_value
  /\ call.param = << "x", "the Default x", "int", "5" >>
  /\ call.raw = "\n    Parameters\n    ----------\n    x : int\n        the Default x\n"

\* the tag-style dialects
TagStyles == {tagstyles[i] : i \in 1..Len(tagstyles)}

\* the text data has a marker of a tag-style dialect
HasTagMarker(data) == \E s \in TagStyles : FoundKeys(data, s) > 0

\* C12: tag-style detection. When the raw text has a marker of a tag-style
\* dialect, autodetect_style returns the tag-style dialect whose markers
\* occur most, whatever section keywords the text has; a text with javadoc
\* markers only is detected as javadoc and its reST transliteration as reST.
C12_TagStyleFirst ==
  call.op = "autodetect_style" =>
    /\ HasTagMarker(call.data) =>
         /\ call.style \in TagStyles
         /\ \A s \in TagStyles : FoundKeys(call.data, call.style) >= FoundKeys(call.data, s)
    /\ (FoundKeys(call.data, "javadoc") > 0 /\ FoundKeys(call.data, "reST") = 0) =>
         /\ call.style = "javadoc"
         /\ autodetect_style(torest(call.data)) = "reST"

\* C12: a javadoc marker under a numpydoc section header is detected as javadoc
C12_MarkerUnderHeader ==
  /\ call.op = "autodetect_style"
  /\ call.data = "Parameters\n----------\n@param x: the x"
  /\ call.style = "javadoc"
  /\ comment_config.dst.style.in = "javadoc"

\* the lines that autodetect_style scans
ScannedLines(data) == SplitLines(Strip(data))

\* some line of data is a dash underline
HasDashLine(data) ==
  \E i \in 1..Len(ScannedLines(data)) : IsDashLine(ScannedLines(data)[i])

\* C13, as stated: a dash underline and the word 'Parameters' anywhere in the
\* raw text give numpydoc
C13_ParametersAnywhere ==
  (call.op = "autodetect_style" /\ HasDashLine(call.data)
   /\ Contains(call.data, "Parameters"))
    => call.style = "numpydoc"

\* C13: numpydoc detection. When the raw text has no tag-style marker, a dash
\* underline and a line that starts with 'Parameters', autodetect_style
\* returns numpydoc, also when the text has the Google marker 'Returns:'.
C13_NumpydocDetected ==
  (/\ call.op = "autodetect_style"
   /\ ~HasTagMarker(call.data)
   /\ HasDashLine(call.data)
   /\ \E i \in 1..Len(ScannedLines(call.data)) :
        StartsWith(LStrip(ScannedLines(call.data)[i]), "Parameters"))
    => call.style = "numpydoc"

\* C13: 'Parameters', its underline and 'Returns:' are detected as numpydoc
C13_NumpydocWithReturns ==
  /\ call.op = "autodetect_style"
  /\ call.data = "Parameters\n----------\nReturns:"
  /\ call.style = "numpydoc"

\* C14: unknown fallback. autodetect_style returns 'unknown' for a raw text
\* without a tag-style marker, without a line that starts with a Groups,
\* Google or Numpydoc keyword and without a dash underline.
C14_UnknownFallback ==
  (/\ call.op = "autodetect_style"
   /\ ~HasTagMarker(call.data)
   /\ FoundGroups(ScannedLines(call.data)) = 0
   /\ FoundGoogledoc(ScannedLines(call.data)) = 0
   /\ FoundNumpydoc(ScannedLines(call.data)) = 0
   /\ ~HasDashLine(call.data))
    => call.style = "unknown"

\* C14: the one-sentence description 'Do it.' is detected as google
C14_PlainSentenceIsGoogle ==
  /\ call.op = "autodetect_style"
  /\ call.data = "Do it."
  /\ call.style = "google"

\* C17: signature comment stripping. _remove_signature_comment returns the
\* signature without the comment that follows it: a '#' inside the brackets
\* and quotes of the parameter list does not start a comment.
C17_CommentStripped ==
  call.op = "_remove_signature_comment" => call.ret = call.head

\* C17: the signature is cut at the '#' of the default value '#' of b,
\* after the default value ')' of a
C17_QuotedHashCut ==
  /\ call.op = "_remove_signature_comment"
  /\ call.txt = "def f(a=')', b='#'):"
  /\ call.ret = "def f(a=')', b='"

\* C18: parameter tokenizer nesting. The ',', ':' and '=' inside the
\* brackets and quotes of an annotation or a default value, at any depth,
\* are part of that field: the parameters extracted are the name, type and
\* default triples of the signature.
C18_NestedSeparators ==
  call.op = "_extract_signature_elements" =>
    /\ ~call.ret.exc
    /\ call.ret.elems = call.params

\* C18: the ',' after the inner list of Dict[List[int], str] has ended the
\* parameter a
C18_SplitInsideBrackets ==
  /\ call.op = "_extract_signature_elements"
  /\ call.txt = "def f(a: Dict[List[int], str], b):"
  /\ call.ret.elems = << [param |-> "a", type |-> "Dict[List[int]", default |-> ""],
                         [param |-> "str]", type |-> "", default |-> ""],
                         [param |-> "b", type |-> "", default |-> ""] >>

\* the output dialects that keep an extracted return list
SectionStyles == {"groups", "numpydoc", "google"}

\* C19: multi-return merge. An extracted return list merged for an output
\* dialect without sections gives the first entry only, as 'name ->
\* description' when the entry has a name and as its description otherwise;
\* for an output dialect with sections the list is the merged return.
C19_FirstEntryKept ==
  (call.op = "__extract_return" /\ call.in_return.kind = "list") =>
    IF comment_config.dst.style.out \in SectionStyles
    THEN call.ret[2] = call.in_return
    ELSE Len(call.in_return.items) > 0 =>
           call.ret[2] = StrReturn(
             IF call.in_return.items[1][1] # None
             THEN call.in_return.items[1][1] \o " -> " \o call.in_return.items[1][2]
             ELSE call.in_return.items[1][2])

\* C19: the entry named r is merged for reST as 'r-> the r'
C19_ArrowWithoutSpace ==
  /\ call.op = "__extract_return"
  /\ comment_config.dst.style.out = "reST"
  /\ call.in_return = ListReturn(<< << "r", "the r", "int" >>, << None, "other", None >> >>)
  /\ call.ret[2] = StrReturn("r-> the r")

\* C20: iteration-cap escalation. _extract_tagstyle_docs_raises does not
\* return to its caller once its loop has gone over the cap of 10000
\* iterations: that is a fatal error for the element.
C20_CapIsFatal ==
  (call.op = "_extract_tagstyle_docs_raises" /\ call.at = "returned") => call.i <= maxi

\* C20: the loop went over the cap, the warning was printed and the method
\* returned with one more entry than the cap
C20_WarnedAndReturned ==
  /\ call.op = "_extract_tagstyle_docs_raises"
  /\ call.at = "returned"
  /\ call.i = maxi + 1
  /\ call.listed = maxi + 1
  /\ call.warned
  /\ ~call.exc


\* parse_docs has been called on the instance e (it returned, or it raised)
ParseDocsRan(e) ==
  \/ pc[e] = "extracted"
  \/ pc[e] = "failed" /\ last = [op |-> "parse_docs", elem |-> e]

\* a raw comment was available to parse_docs: given at construction or passed
RawAvailable(e) == input[e].doc # None

\* every field of docs['in'] is as the constructor left it, with no raw text
InEmpty(d) ==
  d.docs.in = [raw |-> None, doctests |-> "", desc |-> None, params |-> << >>,
               return |-> NoReturn, rtype |-> None, raises |-> << >>]

NoSections(e) ==
  /\ ds[e].element.params = << >>
  /\ ~has_sections(create_builder(ds[e]))

\* the description that the instance e extracted from its comment is one line
OneLineDescription(e) ==
  /\ ds[e].docs.in.desc \notin {None, ""}
  /\ Strip(ds[e].docs.in.desc) # ""
  /\ ~Contains(Strip(ds[e].docs.in.desc), NL)

\* C22: one-line comment. For an element with no parameters after the removal
\* of self and cls, no return and no raises, whose existing description is a
\* single line, the rendered comment has no newline when
\* description_on_new_line is disabled.
C22_OneLineComment ==
  \A e \in DOMAIN ds :
    (/\ pc[e] = "extracted"
     /\ ds[e].generated_docs
     /\ ~comment_config.description_on_new_line
     /\ NoSections(e)
     /\ OneLineDescription(e))
    => /\ ~Contains(ds[e].docs.out.raw, NL)
       /\ ds[e].docs.out.raw
            = comment_config.quotes \o Strip(ds[e].docs.in.desc) \o comment_config.quotes

\* the method oneline(self) with its one-line comment is rendered on one line,
\* first_line being set
C22_OneLineRendered ==
  /\ "A" \in DOMAIN ds
  /\ pc["A"] = "extracted"
  /\ ds["A"].generated_docs
  /\ comment_config.first_line
  /\ ~comment_config.description_on_new_line
  /\ ds["A"].element.name = "oneline"
  /\ ds["A"].docs.out.raw = "\"\"\"the one line docstring\"\"\""


\* the instance e is a class that had no comment, and has rendered one
ClassWithoutComment(e) ==
  /\ pc[e] = "extracted"
  /\ ds[e].generated_docs
  /\ ds[e].element.deftype = "class"
  /\ input[e].doc = None

\* C23: class auto-description. For a class with no existing comment the class
\* name is the description, and the comment is rendered on one line as
\* delimiter, space, class name, space, delimiter, for every setting of
\* first_line and description_on_new_line.
C23_ClassNameOnOneLine ==
  \A e \in DOMAIN ds :
    ClassWithoutComment(e)
    => ds[e].docs.out.raw
         = comment_config.quotes \o " " \o ds[e].element.name \o " " \o comment_config.quotes

\* the class Foo without a comment was given a comment that has no description
C23_ClassCommentEmpty ==
  /\ "A" \in DOMAIN ds
  /\ ClassWithoutComment("A")
  /\ ds["A"].element.name = "Foo"
  /\ ~comment_config.description_on_new_line
  /\ ds["A"].docs.out.raw = "\"\"\"\"\"\""


\* the javadoc markers that _extra_tagstyle_elements looks for at the start
\* of a stripped line
IsParamLine(striped) == StartsWith(striped, OptName("param", "javadoc"))

IsTypeLine(striped) ==
  ~IsParamLine(striped) /\ StartsWith(striped, OptName("type", "javadoc"))

IsOtherMarkerLine(striped) ==
  /\ ~IsParamLine(striped)
  /\ ~StartsWith(striped, OptName("type", "javadoc"))
  /\ \/ StartsWith(striped, SliceTo(OptName("raise", "javadoc"), -1))
     \/ StartsWith(striped, SliceTo(OptName("return", "javadoc"), -1))
     \/ StartsWith(striped, OptName("rtype", "javadoc"))

IsMarkerLine(line) ==
  IsParamLine(Strip(line)) \/ IsTypeLine(Strip(line)) \/ IsOtherMarkerLine(Strip(line))

\* the position of the last marker line of lines, 0 when there is none
LastMarker(lines) ==
  IF \E i \in 1..Len(lines) : IsMarkerLine(lines[i])
  THEN CHOOSE i \in 1..Len(lines) :
         IsMarkerLine(lines[i]) /\ \A j \in (i + 1)..Len(lines) : ~IsMarkerLine(lines[j])
  ELSE 0

\* a param or type element is open after lines: the last marker line is one
ElementOpen(lines) ==
  /\ LastMarker(lines) # 0
  /\ ~IsOtherMarkerLine(Strip(lines[LastMarker(lines)]))

\* the parameter that the marker line names, None when it names none
NamedParameter(line) ==
  IF IsParamLine(Strip(line))
  THEN parse_param(Strip(line), OptName("param", "javadoc"), << >>).name
  ELSE parse_param_type(Strip(line), OptName("type", "javadoc"), << >>).name

\* the description of the parameter name of ret, with the line appended
WithAppended(ret, name, line) ==
  [i \in 1..Len(ret) |->
     IF ret[i].name = name
     THEN [ret[i] EXCEPT !.description = (IF @ = None THEN "" ELSE @) \o NL \o line]
     ELSE ret[i]]

\* the scan of lines ended without raising
Scanned(lines) == ~extra_tagstyle_elements("javadoc", Join(lines, NL)).exc

ScanOf(lines) == extra_tagstyle_elements("javadoc", Join(lines, NL)).ret

\* the lines scanned before the last one
FrontLines == SubSeq(call.lines, 1, Len(call.lines) - 1)

LastLine == call.lines[Len(call.lines)]

\* the last line of the scanned text starts with no marker, and the lines
\* before it were scanned
NonMarkerLast ==
  /\ call.op = "_extra_tagstyle_elements"
  /\ ~IsMarkerLine(LastLine)
  /\ Scanned(FrontLines)

\* C24: the tag-style line scanner. While a param or type element is open,
\* every line that starts with no marker is appended, after a newline, to the
\* description of the parameter of that element; after a return, rtype or
\* raise marker line the lines without a marker are appended to no parameter;
\* a new param or type marker line makes its parameter the one appended to.
C24_LineScanner ==
  /\ NonMarkerLast /\ ElementOpen(FrontLines)
     => /\ ~call.exc
        /\ NamedParameter(FrontLines[LastMarker(FrontLines)]) # None
        /\ call.ret = WithAppended(ScanOf(FrontLines),
                                   NamedParameter(FrontLines[LastMarker(FrontLines)]),
                                   LastLine)
  /\ NonMarkerLast /\ ~ElementOpen(FrontLines)
     => ~call.exc /\ call.ret = ScanOf(FrontLines)

\* C24, amended: the same for an open element whose marker line names a
\* parameter; when it names none, the line without a marker raises KeyError.
C24_NamedElementScanner ==
  /\ NonMarkerLast /\ ElementOpen(FrontLines)
     /\ NamedParameter(FrontLines[LastMarker(FrontLines)]) # None
     => /\ ~call.exc
        /\ call.ret = WithAppended(ScanOf(FrontLines),
                                   NamedParameter(FrontLines[LastMarker(FrontLines)]),
                                   LastLine)
  /\ NonMarkerLast /\ ElementOpen(FrontLines)
     /\ NamedParameter(FrontLines[LastMarker(FrontLines)]) = None
     => call.exc
  /\ NonMarkerLast /\ ~ElementOpen(FrontLines)
     => ~call.exc /\ call.ret = ScanOf(FrontLines)

\* after the param line of x the type line of y switched the open element:
\* the two lines that follow went to the description of y
C24_AppendedToSwitched ==
  /\ call.op = "_extra_tagstyle_elements"
  /\ call.lines = << "@param x: the x", "@type y: str", "more text", "  indented" >>
  /\ ~call.exc
  /\ call.ret = << [name |-> "x", type |-> None, type_in_param |-> None,
                    description |-> "the x"],
                   [name |-> "y", type |-> "str", type_in_param |-> None,
                    description |-> "\nmore text\n  indented"] >>


\* the line after a param line that names no parameter was appended to
\* nothing: the scan raised KeyError
C24_NamelessElementRaised ==
  /\ call.op = "_extra_tagstyle_elements"
  /\ call.lines = << "@param y", "more text" >>
  /\ ElementOpen(FrontLines)
  /\ call.exc


\* the configuration and the builder of the build() that was called
BuiltConfig == call.config

Built == call.builder

\* the parts that build() puts after the description when there are sections:
\* the three sections of the strategy, the post text and the doctests, each
\* without the white space around it
LaterParts ==
  << Strip(format_params_section(BuiltConfig, "    ", comment_config.dst.style.out, Built)),
     Strip(format_return_section(BuiltConfig, "    ", comment_config.dst.style.out, Built)),
     Strip(format_raises_section(BuiltConfig, "    ", comment_config.dst.style.out,
                                 Built).raw),
     IF Built.post \notin {None, ""} THEN Strip(with_space(BuiltConfig, Built.post)) ELSE "",
     IF Built.doctests # "" THEN Strip(with_space(BuiltConfig, Built.doctests)) ELSE "" >>

\* the opening delimiter with the description on the line after it
OpeningAndDescription ==
  build_docstring_start(BuiltConfig) \o NL \o BuiltConfig.spaces
  \o Strip(with_space(BuiltConfig, Built.description))

RECURSIVE PartsEnd(_, _, _)
\* where the last of parts ends in raw when each part is found after the one
\* before it, from the position from on; -1 when one is not found
PartsEnd(raw, parts, from) ==
  IF Len(parts) = 0 THEN from
  ELSE IF FindFrom(raw, parts[1], from) = -1 THEN -1
  ELSE PartsEnd(raw, Tail(parts), FindFrom(raw, parts[1], from) + Len(parts[1]))

\* build() was called on a builder that has a section, and returned
BuiltWithSections ==
  /\ call.op = "build"
  /\ has_sections(Built)
  /\ ~call.exc

C28_Delimited ==
  call.op = "build" /\ ~call.exc
  => /\ StartsWith(call.raw, BuiltConfig.spaces \o BuiltConfig.before_lim
                             \o BuiltConfig.quotes)
     /\ EndsWith(call.raw, BuiltConfig.quotes)
     /\ Count(call.raw, BuiltConfig.quotes)
          = 2 + Count(Strip(Built.description), BuiltConfig.quotes)

\* the comment built for a description that holds the quote characters, with
\* a parameter section, was left without its closing delimiter
C28_LeftOpen ==
  /\ call.op = "build"
  /\ ~call.exc
  /\ Built.description = "Say \"\"\"hi\"\"\" to it."
  /\ Len(Built.params) > 0
  /\ call.raw = "\"\"\"\nSay \"\"\"hi\"\"\" to it.\n\n    :param x: the x\n    :type x: int"


\* the lines of the parsed section that are not blank
ContentIdx == {i \in 1..Len(call.lines) : Strip(call.lines[i]) # ""}

\* the length of the leading white space of the i-th line
IndentOf(i) == Len(get_leading_spaces(call.lines[i]))

\* the column of the first content line of the section
FirstColumn == IndentOf(CHOOSE i \in ContentIdx : \A j \in ContentIdx : i <= j)

\* the content lines at that column, and the ones before the i-th line
ColumnIdx == {i \in ContentIdx : IndentOf(i) = FirstColumn}

ColumnIdxBefore(i) == {j \in ColumnIdx : j < i}

\* the lines indented more than that column which follow the k-th line at the
\* column, without the base indentation of the section
Continuations(k) ==
  LET deeper == {i \in ContentIdx : IndentOf(i) > FirstColumn
                                     /\ Cardinality(ColumnIdxBefore(i)) = k}
      order  == CHOOSE f \in [1..Cardinality(deeper) -> deeper] :
                  \A a, b \in 1..Cardinality(deeper) : a < b => f[a] < f[b]
  IN  [n \in 1..Cardinality(deeper) |-> ReplaceFirst(call.lines[order[n]], call.spaces, "")]

\* _get_list_key was called on a section with content, none of it left of the
\* first content line
SectionParsed ==
  /\ call.op = "_get_list_key"
  /\ ContentIdx # {}
  /\ \A i \in ContentIdx : IndentOf(i) >= FirstColumn

\* C26: the column-alignment rule of the Google and Numpydoc list parsers. A
\* new entry begins at each line that is not blank and whose leading white
\* space is as long as that of the first content line of the section; every
\* line indented more is appended to the description of the entry before it,
\* without the base indentation of the section: there are as many entries as
\* lines at the column of the first content line.
C26_ColumnAlignment ==
  SectionParsed
  => /\ Len(call.ret) = Cardinality(ColumnIdx)
     /\ \A k \in 1..Cardinality(ColumnIdx) :
          Len(Continuations(k)) > 0
          => /\ k <= Len(call.ret)
             /\ EndsWith(call.ret[k][2], Join(Continuations(k), NL))

\* the Numpydoc parser found no entry in a section whose content is indented
\* under its header
C26_IndentedContentLost ==
  /\ call.op = "_get_list_key"
  /\ call.tool = "numpydoc"
  /\ call.lines = << "    y : str", "        more" >>
  /\ call.ret = << >>

\* the Google parser found one entry in a section with two lines at the
\* column of the first one
C26_LineWithoutColonLost ==
  /\ call.op = "_get_list_key"
  /\ call.tool = "google"
  /\ call.lines = << "y", "x : int" >>
  /\ call.ret = << << "x", "int", None >> >>


\* the lines of the header of a section: the underline counts for Numpydoc
HeaderLines(tool) == IF tool = "numpydoc" THEN 2 ELSE 1

\* the position in data of the header that follows the header at position 1,
\* Len(data) + 1 when none follows
NextHeader(tool, data) ==
  IF get_next_section_start_line(tool, ListFrom(data, 1)) = -1 THEN Len(data) + 1
  ELSE get_next_section_start_line(tool, ListFrom(data, 1)) + 2

\* the lines between the header of the first section and the next header
SectionExtent(tool, data) == SubSeq(data, HeaderLines(tool) + 1, NextHeader(tool, data) - 1)

\* C27: the extent of a section. For Google and Numpydoc input get_list_key
\* gives the entry parser every line between the header of the section (with
\* its underline for Numpydoc) and the next header or the end of the text: the
\* last line of the section too when the next header follows it directly.
C27_SectionExtent ==
  call.op = "get_list_key"
  => call.ret = ToolListKey(call.tool, get_leading_spaces(call.data[1]),
                            SectionExtent(call.tool, call.data))

\* the last line of the Numpydoc parameter section, followed directly by the
\* header of the next section, was not given to the entry parser
C27_LastLineLeftOut ==
  /\ call.op = "get_list_key"
  /\ call.tool = "numpydoc"
  /\ call.data = << "Parameters", "----------", "x : int", "    the x", "Returns",
                    "-------", "int" >>
  /\ SectionExtent(call.tool, call.data) = << "x : int", "    the x" >>
  /\ call.ret = << << "x", "", "int" >> >>


\* the two index-scan loops
IndexScans == {"_extract_tagstyle_docs_raises", "_old_extract_tagstyle_docs_params"}

\* a step is an iteration of an index-scan loop over a text that finds an entry
EntryFound ==
  /\ RaisesScanIteration \/ OldParamsIteration
  /\ call'.listed = call.listed + 1

\* no index-scan loop has done more than maxi + 1 iterations
IterationsCapped == call.op \in IndexScans => call.i <= maxi + 1

\* the method that was called has returned
LoopReturned == call # NoCall /\ call.at = "returned"

\* C29: the tag-style raises loop and the legacy parameter loop do at most
\* 10,001 iterations, every iteration of theirs that finds an entry leaves a
\* strictly shorter text to scan, every iteration of the doctest loop takes at
\* least one line out of the text, and each of the three loops, once entered,
\* comes to its end.
C29_ExtractionTerminates ==
  /\ []IterationsCapped
  /\ [][EntryFound => Len(call'.data) < Len(call.data)]_vars
  /\ [][DoctestIteration =>
          Len(SplitLines(call'.raw)) + 1 <= Len(SplitLines(call.raw))]_vars
  /\ (call # NoCall) ~> LoopReturned

\* the raises loop has returned from a text after two iterations that found an
\* entry and a third that found none
C29_TwoEntriesScanned ==
  /\ LoopReturned
  /\ call.op = "_extract_tagstyle_docs_raises"
  /\ "data" \in DOMAIN call
  /\ call.found = << << "KeyError", "bad key" >>, << "E", "" >> >>
  /\ call.i = 3


\* parse_docs was called again on an element, and returned
ParsedAgain(e) == call.op = "parse_docs" /\ call.elem = e /\ pc[e] = "extracted"

\* C30: after parse_docs is called again on an element, with the comment or
\* without it, the params, raises, return and desc of docs['in'] are what the
\* first call left.
C30_ParseDocsIdempotent ==
  \A e \in Elems :
    ParsedAgain(e) =>
      /\ ds[e].docs.in.params = call.first.params
      /\ ds[e].docs.in.raises = call.first.raises
      /\ ds[e].docs.in.return = call.first.return
      /\ ds[e].docs.in.desc = call.first.desc

\* parse_docs was called twice on an element whose comment has one raise
\* entry: docs['in']['raises'] holds it twice and the rendered comment has two
\* lines for it
C30_RaiseRenderedTwice ==
  /\ ParsedAgain("A")
  /\ call.times = 1
  /\ Len(call.first.raises) = 1
  /\ ds["A"].docs.in.raises = call.first.raises \o call.first.raises
  /\ ds["A"].generated_docs
  /\ raw_writes["A"] = 1
  /\ Count(ds["A"].docs.out.raw, "KeyError") = 2

=============================================================================
